---- MODULE Spec2Model ----
(***************************************************************************)
(* Model of pbo_tools_rs: the wrapper around the external extractpbo tool. *)
(*                                                                         *)
(* Texts (Rust String / &str) are sequences of one-character strings, so   *)
(* that substring search, line splitting and trimming are computed the way *)
(* the code computes them.                                                 *)
(***************************************************************************)
EXTENDS Integers, Sequences, FiniteSets, TLC

VARIABLES
    \* the result classifier
    result,      \* the ExtractResult under classification (return_code, stdout, stderr)
    derived,     \* the derived queries of `result`, once computed
    phase,       \* "input" before the queries are computed, "derived" after, "off" when unused
    \* the engine
    config,      \* the PboConfig the engine was built with
    timeout,     \* PboApi.timeout, in seconds
    request,     \* per call: the request (entry point, options, paths)
    callerPc,    \* per call: where the calling thread is
    workerPc,    \* per call: where the worker thread of with_timeout is
    reaperPc,    \* per call: where the thread that joins a timed-out worker is
    chan,        \* per call: the results in flight on the (tx, rx) channel
    txAlive,     \* per call: the worker still owns tx
    rxAlive,     \* per call: the caller still owns rx
    cancelChan,  \* per call: cancellation signals queued on (cancel_tx, cancel_rx)
    opResult,    \* per call: what the operation returned on its thread
    outcome,     \* per call: the values returned to the caller, in order
    tool,        \* per call: what Command::output returned, once it has
    spawns,      \* per call: how many times Command::output was invoked
    cmdline,     \* per call: the argument vector given to the subprocess
    dirCreated,  \* per call: the call created its output directory
    events,      \* per call: the channel events in the order they happened
    \* the command line builder
    cmdIn,       \* the arguments and the source path handed to run_extractpbo_command
    cmdOut,      \* what run_extractpbo_command made of them, once it has
    \* the scratch directories
    managers,    \* the TempFileManager handles that exist
    active_dirs, \* per manager: its registry of scratch directories
    disk,        \* the scratch directories that exist on disk
    handles,     \* the scratch directories whose TempDir is still held
    expired,     \* the scratch directories created more than max_age ago
    creator,     \* per scratch directory: the manager that created it (0: not created)
    removals,    \* the <<manager, directory>> pairs of the removals by cleanup_old_dirs
    \* the destination directory of an extraction
    dest,        \* the names of the files in the destination directory
    extracted,   \* the names of the files the tool wrote there
    extraction,  \* the engine that ran extract_files and what it returned, once it has
    \* the builders
    configBuilder, \* the PboConfigBuilder under construction
    apiBuilder,    \* the PboApiBuilder under construction
    builderCalls,  \* the builder methods called so far, in order
    built,         \* the PboConfig and the PboApi timeout, once built
    \* the content decoder
    content,     \* the bytes of a BinaryContent
    decoded,     \* what decode_text returned for them, once it has
    \* the threads that use one scratch directory manager
    threadPc,    \* per thread: where it is in create_temp_dir or cleanup_old_dirs
    lock,        \* the thread that holds the active_dirs mutex (0: nobody)
    pending,     \* per thread: the expired paths it still has to remove
    lockedIo     \* the file-system calls made so far by a thread holding the mutex

classifierVars == <<result, derived, phase>>

engineVars ==
    <<config, timeout, request, callerPc, workerPc, reaperPc, chan, txAlive, rxAlive,
      cancelChan, opResult, outcome, tool, spawns, cmdline, dirCreated, events>>

commandVars == <<cmdIn, cmdOut>>

tempVars == <<managers, active_dirs, disk, handles, expired, creator, removals>>

binVars == <<dest, extracted, extraction>>

builderVars == <<configBuilder, apiBuilder, builderCalls, built>>

decodeVars == <<content, decoded>>

lockVars == <<threadPc, lock, pending, lockedIo>>

vars ==
    <<result, derived, phase, config, timeout, request, callerPc, workerPc, reaperPc,
      chan, txAlive, rxAlive, cancelChan, opResult, outcome, tool, spawns, cmdline,
      dirCreated, events, cmdIn, cmdOut, managers, active_dirs, disk, handles, expired,
      creator, removals, dest, extracted, extraction, configBuilder, apiBuilder,
      builderCalls, built, content, decoded, threadPc, lock, pending, lockedIo>>

\* the command line builder, unused
CommandOff ==
    /\ cmdIn = [args |-> <<>>, pbo |-> [path |-> <<>>, exists |-> FALSE]]
    /\ cmdOut = [built |-> FALSE, err |-> [some |-> FALSE, val |-> <<>>], cmdline |-> <<>>]

\* no scratch directory manager
TempOff ==
    /\ managers = {}
    /\ active_dirs = <<>>
    /\ disk = {}
    /\ handles = {}
    /\ expired = {}
    /\ creator = <<>>
    /\ removals = {}

\* no extraction into a destination directory
BinOff ==
    /\ dest = {}
    /\ extracted = {}
    /\ extraction = [engine |-> "", returned |-> FALSE, ok |-> FALSE, return_code |-> 0]


\* no builder in use
BuilderOff ==
    /\ configBuilder = <<>>
    /\ apiBuilder = <<>>
    /\ builderCalls = <<>>
    /\ built = <<>>

\* no content to decode
DecodeOff ==
    /\ content = <<>>
    /\ decoded = [done |-> FALSE, value |-> <<>>]

\* no thread at work on the scratch directory manager
LockOff ==
    /\ threadPc = <<>>
    /\ lock = 0
    /\ pending = <<>>
    /\ lockedIo = {}

-----------------------------------------------------------------------------
(* Text primitives (Rust core::str).                                       *)

\* Option<T>
None == [some |-> FALSE, val |-> <<>>]
Some(v) == [some |-> TRUE, val |-> v]

\* char::is_whitespace, restricted to the ASCII white space the inputs use
IsWhitespace(c) == c \in {" ", "\t", "\n", "\r"}

\* str::contains(&str)
Contains(s, p) ==
    \E i \in 1..(Len(s) - Len(p) + 1) : SubSeq(s, i, i + Len(p) - 1) = p

\* str::contains(char)
ContainsChar(s, c) == \E i \in 1..Len(s) : s[i] = c

\* str::contains([char; N])
ContainsAnyChar(s, cs) == \E i \in 1..Len(s) : s[i] \in cs

\* str::starts_with(&str)
StartsWith(s, p) == Len(p) <= Len(s) /\ SubSeq(s, 1, Len(p)) = p

\* str::ends_with(&str)
EndsWith(s, p) == Len(p) <= Len(s) /\ SubSeq(s, Len(s) - Len(p) + 1, Len(s)) = p

\* str::trim_start
RECURSIVE TrimStart(_)
TrimStart(s) ==
    IF s # <<>> /\ IsWhitespace(Head(s)) THEN TrimStart(Tail(s)) ELSE s

\* str::trim_end
RECURSIVE TrimEnd(_)
TrimEnd(s) ==
    IF s # <<>> /\ IsWhitespace(s[Len(s)])
    THEN TrimEnd(SubSeq(s, 1, Len(s) - 1))
    ELSE s

\* str::trim
Trim(s) == TrimEnd(TrimStart(s))

\* str::trim_end_matches(&str): removes every trailing repetition of p
RECURSIVE TrimEndMatches(_, _)
TrimEndMatches(s, p) ==
    IF p # <<>> /\ EndsWith(s, p)
    THEN TrimEndMatches(SubSeq(s, 1, Len(s) - Len(p)), p)
    ELSE s

\* str::strip_prefix(&str)
StripPrefix(s, p) ==
    IF StartsWith(s, p) THEN Some(SubSeq(s, Len(p) + 1, Len(s))) ELSE None

\* str::replace(char, &str) for a one-character replacement
ReplaceChar(s, from, to) ==
    [i \in 1..Len(s) |-> IF s[i] = from THEN to ELSE s[i]]

\* str::split(char): the pieces between the separators, in order
RECURSIVE SplitFrom(_, _, _, _)
SplitFrom(s, sep, i, cur) ==
    IF i > Len(s) THEN <<cur>>
    ELSE IF s[i] = sep THEN <<cur>> \o SplitFrom(s, sep, i + 1, <<>>)
    ELSE SplitFrom(s, sep, i + 1, Append(cur, s[i]))

Split(s, sep) == SplitFrom(s, sep, 1, <<>>)

\* Iterator::nth(n) (zero-based)
Nth(seq, n) == IF n + 1 <= Len(seq) THEN Some(seq[n + 1]) ELSE None

\* str::lines: split after every "\n"; a line that ended in "\n" loses it and
\* one "\r" before it; the text after the last "\n" is a line unless empty
StripLineEnd(l) ==
    IF Len(l) >= 1 /\ l[Len(l)] = "\r" THEN SubSeq(l, 1, Len(l) - 1) ELSE l

RECURSIVE LinesFrom(_, _, _)
LinesFrom(s, i, cur) ==
    IF i > Len(s) THEN (IF cur = <<>> THEN <<>> ELSE <<cur>>)
    ELSE IF s[i] = "\n" THEN <<StripLineEnd(cur)>> \o LinesFrom(s, i + 1, <<>>)
    ELSE LinesFrom(s, i + 1, Append(cur, s[i]))

Lines(s) == LinesFrom(s, 1, <<>>)

\* Iterator::find, over the elements that satisfy the predicate
FirstOf(seq) == IF seq = <<>> THEN None ELSE Some(Head(seq))

\* concatenation of a sequence of texts
RECURSIVE Concat(_)
Concat(ts) == IF ts = <<>> THEN <<>> ELSE Head(ts) \o Concat(Tail(ts))

\* every sequence over S of length at most n
SeqsUpTo(S, n) == UNION {[1..k -> S] : k \in 0..n}

\* Display for i32 (format!("{}", n))
Digit(d) == <<"0", "1", "2", "3", "4", "5", "6", "7", "8", "9">>[d + 1]

RECURSIVE NatToString(_)
NatToString(n) ==
    IF n < 10 THEN <<Digit(n)>> ELSE Append(NatToString(n \div 10), Digit(n % 10))

I32ToString(n) == IF n < 0 THEN <<"-">> \o NatToString(0 - n) ELSE NatToString(n)

-----------------------------------------------------------------------------
(* ExtractResult and its derived queries (src/extract/result.rs).          *)

known_warnings ==
    << <<"1","s","t","/","l","a","s","t"," ","e","n","t","r","y"," ","h","a","s"," ","n","o","n","-","z","e","r","o"," ","r","e","a","l","_","s","i","z","e">>,
       <<"r","e","s","e","r","v","e","d"," ","f","i","e","l","d"," ","n","o","n"," ","z","e","r","o">>,
       <<"n","o"," ","s","h","a","k","e","y"," ","o","n"," ","a","r","m","a">>,
       <<"a","r","m","a"," ","p","b","o"," ","i","s"," ","m","i","s","s","i","n","g"," ","a"," ","p","r","e","f","i","x">> >>

error_indicators ==
    << <<"E","r","r","o","r">>,
       <<"F","a","i","l","e","d">>,
       <<"C","a","n","n","o","t"," ","o","p","e","n">>,
       <<"B","a","d"," ","S","h","a">>,
       <<"u","n","k","n","o","w","n"," ","h","e","a","d","e","r"," ","t","y","p","e">>,
       <<"t","h","i","s"," ","w","a","r","n","i","n","g"," ","i","s"," ","s","e","t"," ","a","s"," ","a","n"," ","e","r","r","o","r">>,
       <<"r","e","s","i","d","u","a","l"," ","b","y","t","e","s"," ","i","n"," ","f","i","l","e">> >>

skip_patterns ==
    << <<"A","c","t","i","v","e"," ","c","o","d","e"," ","p","a","g","e",":">>,
       <<"E","x","t","r","a","c","t","P","b","o"," ","V","e","r","s","i","o","n">>,
       <<"O","p","e","n","i","n","g"," ","p","b","o"," ","a","r","c","h","i","v","e">>,
       <<"p","r","e","f","i","x","=">>,
       <<"M","i","k","e","r","o","=">>,
       <<"v","e","r","s","i","o","n","=">>,
       <<"P","b","o","T","y","p","e","=">>,
       <<"=","=","=">>,
       <<"/","/">>,
       <<"C","r","e","a","t","e","d"," ","b","y">>,
       <<"A","u","t","h","o","r",":">>,
       <<"B","i","n","P","a","t","c","h","e","s","=">>,
       <<"R","e","p","o","r","t","I","n","v","a","l","i","d","F","i","l","e","s","=">>,
       <<"S","e","a","r","c","h","F","o","r","B","i","n","F","i","l","e","s","=">> >>

\* the loop over known_warnings only logs; the loop over error_indicators
\* stops at the first indicator found in either stream
has_error_indicators_stderr_only(r) ==
    \E i \in 1..Len(error_indicators) : Contains(r.stderr, error_indicators[i])

has_error_indicators(r) ==
    \E i \in 1..Len(error_indicators) :
        Contains(r.stderr, error_indicators[i]) \/ Contains(r.stdout, error_indicators[i])

is_success(r) == r.return_code = 0 /\ ~has_error_indicators(r)

should_skip_line(line) ==
    line = <<>> \/ \E i \in 1..Len(skip_patterns) : Contains(line, skip_patterns[i])

extract_filename(line) ==
    LET name ==
            IF StartsWith(line, <<"E","x","t","r","a","c","t","i","n","g"," ">>)
            THEN ReplaceChar(
                     Trim(TrimEndMatches(StripPrefix(line, <<"E","x","t","r","a","c","t","i","n","g"," ">>).val, <<".",".",".">>)),
                     "\\", "/")
            ELSE IF ContainsChar(line, ":")
            THEN ReplaceChar(Trim(Split(line, ":")[1]), "\\", "/")
            ELSE ReplaceChar(line, "\\", "/")
    IN  IF name # <<>> THEN Some(name) ELSE None

RECURSIVE file_list_of(_)
file_list_of(ls) ==
    IF ls = <<>> THEN <<>>
    ELSE LET line == Trim(Head(ls))
             rest == file_list_of(Tail(ls))
         IN  IF line = <<>> THEN rest
             ELSE IF should_skip_line(line) THEN rest
             ELSE IF extract_filename(line).some
                  THEN <<extract_filename(line).val>> \o rest
                  ELSE rest

get_file_list(r) == file_list_of(Lines(r.stdout))

IsPrefixLine(line) == StartsWith(line, <<"p","r","e","f","i","x","=">>)

get_prefix(r) ==
    LET found == FirstOf(SelectSeq(Lines(r.stdout), IsPrefixLine))
        piece == IF found.some THEN Nth(Split(found.val, "="), 1) ELSE None
        value == IF piece.some
                 THEN Some(TrimEndMatches(Trim(piece.val), <<";">>))
                 ELSE None
    IN  IF value.some /\ value.val # <<>> THEN value ELSE None

\* PboApi::extract_prefix
PboApi_extract_prefix(output) ==
    LET found == FirstOf(SelectSeq(Lines(output), IsPrefixLine))
        piece == IF found.some THEN Nth(Split(found.val, "="), 1) ELSE None
    IN  IF piece.some THEN Some(TrimEndMatches(Trim(piece.val), <<";">>)) ELSE None

\* PboCore::extract_prefix
PboCore_extract_prefix(output) ==
    LET found == FirstOf(SelectSeq(Lines(output), IsPrefixLine))
        piece == IF found.some THEN Nth(Split(found.val, "="), 1) ELSE None
    IN  IF found.some
        THEN Some(TrimEndMatches(Trim(IF piece.some THEN piece.val ELSE <<>>), <<";">>))
        ELSE None

get_error_message_without_code(r) ==
    IF ~is_success(r)
    THEN Some(IF r.stderr # <<>> THEN r.stderr ELSE <<"U","n","k","n","o","w","n"," ","e","r","r","o","r"," ","o","c","c","u","r","r","e","d">>)
    ELSE None

get_error_message(r) ==
    IF ~is_success(r)
    THEN LET msg1 == IF r.stderr # <<>> THEN r.stderr ELSE <<>>
             msg2 == IF r.return_code # 0
                     THEN msg1 \o (IF msg1 # <<>> THEN <<"\n">> ELSE <<>>)
                               \o <<"C","o","m","m","a","n","d"," ","f","a","i","l","e","d"," ","w","i","t","h"," ","r","e","t","u","r","n"," ","c","o","d","e"," ">>
                               \o I32ToString(r.return_code)
                     ELSE msg1
         IN  Some(IF msg2 = <<>> THEN <<"U","n","k","n","o","w","n"," ","e","r","r","o","r"," ","o","c","c","u","r","r","e","d">> ELSE msg2)
    ELSE None

\* evaluating every derived query of the (immutable) result
NotDerived ==
    [is_success |-> FALSE, error_message |-> None, file_list |-> <<>>, prefix |-> None]

Classify ==
    /\ phase = "input"
    /\ derived' = [is_success    |-> is_success(result),
                   error_message |-> get_error_message(result),
                   file_list     |-> get_file_list(result),
                   prefix        |-> get_prefix(result)]
    /\ phase' = "derived"
    /\ UNCHANGED result
    /\ UNCHANGED engineVars
    /\ UNCHANGED <<commandVars, tempVars, binVars, builderVars, decodeVars, lockVars>>

-----------------------------------------------------------------------------
(* Errors and results (src/error/types.rs; ValidationFailed and             *)
(* InvalidFormat as the callers in src/extract/extractor.rs use them).      *)

NoResult == [return_code |-> 0, stdout |-> <<>>, stderr |-> <<>>]

\* Result<ExtractResult>: Ok(result) or Err(PboError)
Ok(r) == [tag |-> "Ok", sub |-> "", text |-> <<>>, secs |-> 0, result |-> r]
Err(tag, sub, text) ==
    [tag |-> tag, sub |-> sub, text |-> text, secs |-> 0, result |-> NoResult]
ErrTimeout(n) ==
    [tag |-> "Timeout", sub |-> "", text |-> <<>>, secs |-> n, result |-> NoResult]

IsOk(res) == res.tag = "Ok"

-----------------------------------------------------------------------------
(* Program constants and configuration (src/core/constants.rs,              *)
(* src/core/config.rs, src/core/api.rs).                                    *)

DEFAULT_TIMEOUT == 30

BAD_PBO_INDICATORS ==
    << <<"D","e","P","b","o",":","P","b","o"," ","u","n","k","n","o","w","n"," ","h","e","a","d","e","r"," ","t","y","p","e">>,
       <<"B","a","d"," ","S","h","a"," ","d","e","t","e","c","t","e","d">>,
       <<"B","a","d"," ","S","h","a">>,
       <<"t","h","i","s"," ","w","a","r","n","i","n","g"," ","i","s"," ","s","e","t"," ","a","s"," ","a","n"," ","e","r","r","o","r">>,
       <<"r","e","s","i","d","u","a","l"," ","b","y","t","e","s"," ","i","n"," ","f","i","l","e">>,
       <<"C","a","n","n","o","t"," ","o","p","e","n">>,
       <<"E","r","r","o","r">>,
       <<"F","a","i","l","e","d">> >>

COMMON_PBO_EXTENSIONS == { <<"p","b","o">>, <<"x","b","o">>, <<"i","f","a">> }

\* PboConfigBuilder::new: the default mappings, as <<name, mapped name>>
default_mappings ==
    { << <<"c","o","n","f","i","g",".","b","i","n">>, <<"c","o","n","f","i","g",".","c","p","p">> >>,
      << <<"m","o","d","e","l",".","b","i","n">>, <<"m","o","d","e","l",".","c","f","g">> >>,
      << <<"s","t","r","i","n","g","t","a","b","l","e",".","b","i","n">>, <<"s","t","r","i","n","g","t","a","b","l","e",".","x","m","l">> >>,
      << <<"t","e","x","h","e","a","d","e","r","s",".","b","i","n">>, <<"t","e","x","h","e","a","d","e","r","s",".","t","x","t">> >>,
      << <<"s","c","r","i","p","t",".","b","i","n">>, <<"s","c","r","i","p","t",".","c","p","p">> >>,
      << <<"d","e","f","a","u","l","t">>, <<".","t","x","t">> >> }

\* PboConfigBuilder::new: the builder with the default mappings, the default
\* bad indicators and the default flags
PboConfigBuilder_new ==
    [bin_file_types |->
        [k \in { e[1] : e \in default_mappings } |->
            (CHOOSE e \in default_mappings : e[1] = k)[2]],
     bad_pbo_indicators |->
        << <<"D","e","P","b","o",":","P","b","o"," ","u","n","k","n","o","w","n"," ","h","e","a","d","e","r"," ","t","y","p","e">>,
           <<"B","a","d"," ","S","h","a"," ","d","e","t","e","c","t","e","d">>,
           <<"B","a","d"," ","S","h","a">>,
           <<"t","h","i","s"," ","w","a","r","n","i","n","g"," ","i","s"," ","s","e","t"," ","a","s"," ","a","n"," ","e","r","r","o","r">> >>,
     case_sensitive |-> FALSE,
     ignore_path_validation |-> FALSE,
     max_retries |-> 3]

add_bad_indicator(builder, indicator) ==
    [builder EXCEPT !.bad_pbo_indicators = Append(@, indicator)]

\* PboConfig::is_bad_pbo
is_bad_pbo(cfg, message) ==
    \E i \in 1..Len(cfg.bad_pbo_indicators) : Contains(message, cfg.bad_pbo_indicators[i])

\* u32::max
Max(a, b) == IF a >= b THEN a ELSE b

PboApiBuilder_with_timeout_unclamped(seconds) == Some(seconds)

\* PboApiBuilder::with_timeout: the stored duration, in seconds
PboApiBuilder_with_timeout(seconds) == Some(Max(seconds, 1))

\* PboApiBuilder::build: the timeout of the built PboApi, in seconds
PboApiBuilder_build_timeout(timeout_opt) ==
    IF timeout_opt.some THEN timeout_opt.val ELSE DEFAULT_TIMEOUT

-----------------------------------------------------------------------------
(* Paths (std::path::Path, over texts).                                     *)

\* the index of the last occurrence of one of the characters cs in s, or 0
LastIndexOf(s, cs) ==
    IF \E i \in 1..Len(s) : s[i] \in cs
    THEN CHOOSE i \in 1..Len(s) : s[i] \in cs /\ \A j \in (i + 1)..Len(s) : s[j] \notin cs
    ELSE 0

\* Path::file_name
FileName(path) == SubSeq(path, LastIndexOf(path, {"/", "\\"}) + 1, Len(path))

\* Path::extension: the text after the last "." of the file name, when the
\* file name has one that is not its first character
Extension(path) ==
    LET name == FileName(path)
        dot == LastIndexOf(name, {"."})
    IN  IF dot > 1 THEN Some(SubSeq(name, dot + 1, Len(name))) ELSE None

\* str::replace(&str, "") : every occurrence of `from` removed, left to right
RECURSIVE RemoveAll(_, _)
RemoveAll(s, from) ==
    IF s = <<>> THEN <<>>
    ELSE IF StartsWith(s, from) THEN RemoveAll(SubSeq(s, Len(from) + 1, Len(s)), from)
    ELSE <<Head(s)>> \o RemoveAll(Tail(s), from)

\* the Windows verbatim prefix the code strips from paths
VerbatimPrefix == <<"\\", "\\", "?", "\\">>

-----------------------------------------------------------------------------
(* ExtractOptions and DefaultExtractor (src/extract/extractor.rs).          *)

IllegalChars == {"<", ">", "|", "\"", "'"}

AsciiAlphanumeric ==
    {"a","b","c","d","e","f","g","h","i","j","k","l","m",
     "n","o","p","q","r","s","t","u","v","w","x","y","z",
     "A","B","C","D","E","F","G","H","I","J","K","L","M",
     "N","O","P","Q","R","S","T","U","V","W","X","Y","Z",
     "0","1","2","3","4","5","6","7","8","9"}

\* ExtractOptions::validate: None when valid, else the error
ExtractOptions_validate(options) ==
    IF options.brief_listing /\ options.file_filter.some
    THEN Some(Err("ValidationFailed", "",
                  <<"B","r","i","e","f"," ","l","i","s","t","i","n","g"," ","o","p","t","i","o","n"," ","c","a","n","n","o","t"," ","b","e"," ","u","s","e","d"," ","w","i","t","h"," ","e","x","t","r","a","c","t","i","o","n"," ","o","p","t","i","o","n","s">>))
    ELSE IF options.file_filter.some
            /\ ContainsAnyChar(options.file_filter.val, IllegalChars)
    THEN Some(Err("ValidationFailed", "", <<"F","i","l","e"," ","f","i","l","t","e","r"," ","c","o","n","t","a","i","n","s"," ","i","n","v","a","l","i","d"," ","c","h","a","r","a","c","t","e","r","s">>))
    ELSE None

\* the catenated option letters of a request
OptionLetters(options, listing) ==
    (IF options.no_pause THEN <<"P">> ELSE <<>>)
    \o (IF options.warnings_as_errors THEN <<"W">> ELSE <<>>)
    \o (IF options.verbose THEN <<"N">> ELSE <<>>)
    \o (IF listing THEN <<"L">> ELSE <<>>)
    \o (IF listing /\ options.brief_listing THEN <<"B">> ELSE <<>>)

\* run_extractpbo_command up to Command::output: the first error met, or
\* the command line (the tokens after the program name)
IsOptionToken(arg) == StartsWith(arg, <<"-">>)

OptionTokenValid(arg) ==
    \/ StartsWith(arg, <<"-","F","=">>)
    \/ \A i \in 2..Len(arg) : arg[i] \in AsciiAlphanumeric \/ arg[i] = "B"

OptionTokens(args) == SelectSeq(args, IsOptionToken)

NonOptionTokens(args) == SelectSeq(args, LAMBDA a : ~IsOptionToken(a))

FirstInvalidOption(args) ==
    FirstOf(SelectSeq(OptionTokens(args), LAMBDA a : ~OptionTokenValid(a)))

run_extractpbo_command_in_caller_order(args, pbo) ==
    [err |-> None, cmdline |-> << <<"-","P","W">>, pbo.path >> \o args]

run_extractpbo_command(args, pbo) ==
    IF ~pbo.exists
    THEN [err |-> Some(Err("InvalidPath", "", pbo.path)), cmdline |-> <<>>]
    ELSE IF ~(Extension(pbo.path).some /\ Extension(pbo.path).val \in COMMON_PBO_EXTENSIONS)
    THEN [err |-> Some(Err("InvalidFormat", "",
                           <<"F","i","l","e"," ">> \o pbo.path \o <<" ","d","o","e","s"," ","n","o","t"," ","h","a","v","e"," ","a"," ","v","a","l","i","d"," ","P","B","O"," ","e","x","t","e","n","s","i","o","n">>)),
          cmdline |-> <<>>]
    ELSE IF FirstInvalidOption(args).some
    THEN [err |-> Some(Err("ValidationFailed", "",
                           <<"I","n","v","a","l","i","d"," ","o","p","t","i","o","n"," ","f","o","r","m","a","t",":"," ">> \o FirstInvalidOption(args).val)),
          cmdline |-> <<>>]
    ELSE LET dests == NonOptionTokens(args)
         IN  IF dests # <<>> /\ ContainsAnyChar(dests[1], IllegalChars)
             THEN [err |-> Some(Err("ValidationFailed", "",
                                    <<"I","n","v","a","l","i","d"," ","d","e","s","t","i","n","a","t","i","o","n"," ","p","a","t","h",":"," ">> \o dests[1])),
                   cmdline |-> <<>>]
             ELSE [err |-> None,
                   cmdline |-> << <<"-","P","W">> >> \o OptionTokens(args)
                               \o << RemoveAll(pbo.path, VerbatimPrefix) >>
                               \o (IF dests # <<>> THEN <<dests[1]>> ELSE <<>>)]

\* run_extractpbo_command after Command::output returned `out`
\* (out.kind is "output" with an exit status and both streams, or the kind
\* of the io::Error that Command::output returned)
command_result(out) ==
    IF out.kind = "output"
    THEN IF \E i \in 1..Len(BAD_PBO_INDICATORS) :
                \/ Contains(out.stderr, BAD_PBO_INDICATORS[i])
                \/ Contains(out.stdout, BAD_PBO_INDICATORS[i])
         THEN Err("ValidationFailed", "", <<"P","B","O"," ","v","a","l","i","d","a","t","i","o","n"," ","f","a","i","l","e","d",":","\n">> \o out.stderr)
         ELSE Ok([return_code |-> IF out.code.some THEN out.code.val ELSE -1,
                  stdout |-> out.stdout,
                  stderr |-> out.stderr])
    ELSE IF out.kind = "NotFound"
    THEN Err("CommandNotFound", "", <<"e","x","t","r","a","c","t","p","b","o">>)
    ELSE IF out.kind = "PermissionDenied"
    THEN Err("FileSystem", "PathValidation", <<"P","e","r","m","i","s","s","i","o","n"," ","d","e","n","i","e","d">>)
    ELSE Err("Extraction", "CommandFailed", <<"s","p","a","w","n"," ","f","a","i","l","e","d">>)

\* create_dir_all(output_dir) followed by canonicalize: whether the
\* directory gets created, and whether it exists afterwards
DirMissing(out) == out.state # "exists"
CreateSucceeds(out) == out.state \in {"creatable", "noparent"}

\* the arguments a DefaultExtractor method hands to run_extractpbo_command,
\* with the error it returns before that and whether it creates output_dir
ExtractArgs(letters, filter, out) ==
    IF DirMissing(out) /\ ~CreateSucceeds(out)
    THEN [err |-> Some(Err("InvalidPath", "", out.path)), creates |-> FALSE, args |-> <<>>]
    ELSE [err |-> None,
          creates |-> DirMissing(out),
          args |-> (IF letters # <<>> THEN << <<"-">> \o letters >> ELSE <<>>)
                   \o (IF filter.some THEN << <<"-","F","=">> \o filter.val >> ELSE <<>>)
                   \o << RemoveAll(out.path, VerbatimPrefix) >>]

DefaultExtractor_extract_with_options(options, out) ==
    IF ExtractOptions_validate(options).some
    THEN [err |-> ExtractOptions_validate(options), creates |-> FALSE, args |-> <<>>]
    ELSE ExtractArgs(OptionLetters(options, FALSE), options.file_filter, out)

DefaultExtractor_list_with_options(options) ==
    IF ExtractOptions_validate(options).some
    THEN [err |-> ExtractOptions_validate(options), creates |-> FALSE, args |-> <<>>]
    ELSE [err |-> None, creates |-> FALSE,
          args |-> << <<"-">> \o OptionLetters(options, TRUE) >>]

DefaultExtractor_extract(file_filter, out) == ExtractArgs(<<>>, file_filter, out)

DefaultExtractor_list_contents(brief) ==
    [err |-> None, creates |-> FALSE,
     args |-> << IF brief THEN <<"-","L","B">> ELSE <<"-","L">> >>]

-----------------------------------------------------------------------------
(* The engines: PboApi (src/core/api.rs) and PboCore (src/core/pbo.rs).     *)

\* regex::Regex::new(filter).is_ok(), for the filters of the model: a
\* bracket that is never closed does not compile
RegexCompiles(filter) ==
    \A i \in 1..Len(filter) :
        filter[i] = "[" => \E j \in (i + 1)..Len(filter) : filter[j] = "]"

validate_pbo_exists_unchecked(pbo) == None

\* PboApi::validate_pbo_exists, PboCore::validate_pbo_exists
validate_pbo_exists(pbo) ==
    IF ~pbo.exists THEN Some(Err("InvalidPath", "", pbo.path)) ELSE None

\* PboApi::validate_output_dir
validate_output_dir(out) ==
    IF out.state = "noparent" THEN Some(Err("InvalidPath", "", out.path)) ELSE None

\* the file-filter checks of PboApi::extract_with_options
validate_file_filter(file_filter) ==
    IF ~file_filter.some THEN None
    ELSE IF Trim(file_filter.val) = <<>>
    THEN Some(Err("ValidationFailed", "", <<"F","i","l","e"," ","f","i","l","t","e","r"," ","c","a","n","n","o","t"," ","b","e"," ","e","m","p","t","y">>))
    ELSE IF ~ContainsChar(file_filter.val, "*") /\ ~ContainsChar(file_filter.val, "?")
            /\ ~RegexCompiles(file_filter.val)
    THEN Some(Err("ValidationFailed", "",
                  <<"I","n","v","a","l","i","d"," ","f","i","l","e"," ","f","i","l","t","e","r"," ","p","a","t","t","e","r","n",":"," ">> \o file_filter.val))
    ELSE None

ListMethods == {"list_contents", "list_contents_brief", "list_with_options"}

IsListing(req) == req.method \in ListMethods

\* what the calling thread checks before any thread or process is started
PboApi_precheck(req) ==
    IF validate_pbo_exists(req.pbo).some THEN validate_pbo_exists(req.pbo)
    ELSE IF IsListing(req) THEN None
    ELSE IF validate_output_dir(req.out).some THEN validate_output_dir(req.out)
    ELSE validate_file_filter(req.options.file_filter)

PboCore_precheck(req) == validate_pbo_exists(req.pbo)

\* the DefaultExtractor method a request ends in
ExtractorCall(req) ==
    IF req.engine = "DefaultExtractor" /\ req.method = "extract"
    THEN DefaultExtractor_extract(req.options.file_filter, req.out)
    ELSE IF req.engine = "DefaultExtractor" /\ req.method = "list_contents"
    THEN DefaultExtractor_list_contents(req.options.brief_listing)
    ELSE IF IsListing(req)
    THEN DefaultExtractor_list_with_options(req.options)
    ELSE DefaultExtractor_extract_with_options(req.options, req.out)

\* the operation up to Command::output: the error it returns before, whether
\* it created the output directory, and the command line it spawns
Prepare(req) ==
    LET ex == ExtractorCall(req)
        run == run_extractpbo_command(ex.args, req.pbo)
    IN  IF ex.err.some
        THEN [err |-> ex.err, creates |-> FALSE, cmdline |-> <<>>]
        ELSE [err |-> run.err, creates |-> ex.creates, cmdline |-> run.cmdline]

PboApi_closure_result_unfiltered(base) == base

\* the closure PboApi hands to with_timeout, after the extractor returned
PboApi_closure_result(base) ==
    IF IsOk(base) /\ ~is_success(base.result)
    THEN Err("Extraction", "CommandFailed",
             IF get_error_message(base.result).some
             THEN get_error_message(base.result).val
             ELSE <<"U","n","k","n","o","w","n"," ","e","r","r","o","r">>)
    ELSE base

\* what the operation returns once Command::output returned `out`
Finish(req, out) ==
    IF req.engine = "PboApi"
    THEN PboApi_closure_result(command_result(out))
    ELSE command_result(out)

\* mpsc::Receiver::recv_timeout as the caller observes it: a queued result
\* is received; an empty channel whose sender is gone is disconnected; an
\* empty channel whose sender lives runs into the deadline
recv_timeout_without_disconnect(ch, senderAlive) ==
    IF ch # <<>> THEN "Ok" ELSE "Timeout"

recv_timeout(ch, senderAlive) ==
    IF ch # <<>> THEN "Ok"
    ELSE IF ~senderAlive THEN "Disconnected"
    ELSE "Timeout"

\* the Timeout arm of with_timeout: the error returned to the caller
timeout_error_millis(secs) == ErrTimeout(secs * 1000)

timeout_error(secs) == ErrTimeout(secs)

canceled_error ==
    Err("Extraction", "Canceled", <<"O","p","e","r","a","t","i","o","n"," ","t","h","r","e","a","d"," ","t","e","r","m","i","n","a","t","e","d"," ","u","n","e","x","p","e","c","t","e","d","l","y">>)

-----------------------------------------------------------------------------
(* Inputs of the engine: requests, file-system situations, tool behaviour.  *)

\* calls that may be open on one engine handle
NumCalls == 2
CallIds == 1..NumCalls

Options(p, w, n, b, filter) ==
    [no_pause |-> p, warnings_as_errors |-> w, verbose |-> n, brief_listing |-> b,
     file_filter |-> filter]

Filters ==
    { None, Some(<<>>), Some(<<" ">>), Some(<<"*",".","c","p","p">>), Some(<<"a",".","t","x","t">>),
      Some(<<"*",".","c","p","p","|","*",".","h","p","p">>), Some(<<"a","|","b">>), Some(<<"a","<","b">>), Some(<<"a",">","b">>),
      Some(<<"a","\"","b">>), Some(<<"a","'","b">>), Some(<<"[","[","x">>) }

\* the options a caller of the *_with_options methods passes
WithOptionsChoices(filters) ==
    { Options(p, w, n, b, f) :
        p \in {TRUE}, w \in BOOLEAN, n \in {FALSE}, b \in BOOLEAN, f \in filters }
    \cup { Options(FALSE, FALSE, FALSE, FALSE, f) : f \in filters }

PboFiles ==
    { [path |-> <<"a",".","p","b","o">>, exists |-> TRUE],
      [path |-> <<"a",".","p","b","o">>, exists |-> FALSE],
      [path |-> <<"a",".","t","x","t">>, exists |-> TRUE] }

\* the output directory: its canonical path, and whether it exists, is
\* missing under an existing parent and can ("creatable") or cannot
\* ("denied") be created, or is missing together with its parent
OutDirs ==
    { [path |-> p, state |-> s] :
        p \in { <<"/","t","/","o","u","t">>, <<"/","t","/","o","'","u","t">> },
        s \in {"exists", "creatable", "noparent", "denied"} }

NoOut == [path |-> <<>>, state |-> "none"]

Request(e, m, o, pbo, out) ==
    [engine |-> e, method |-> m, options |-> o, pbo |-> pbo, out |-> out]

NoRequest ==
    Request("", "", Options(FALSE, FALSE, FALSE, FALSE, None),
            [path |-> <<>>, exists |-> FALSE], NoOut)

EngineRequests(e) ==
    { Request(e, "list_contents", Options(TRUE, TRUE, FALSE, FALSE, None), pbo, NoOut) :
        pbo \in PboFiles }
    \cup
    { Request(e, "list_contents_brief", Options(TRUE, TRUE, FALSE, TRUE, None), pbo, NoOut) :
        pbo \in PboFiles }
    \cup
    { Request(e, "list_with_options", o, pbo, NoOut) :
        o \in WithOptionsChoices({None, Some(<<"*",".","c","p","p">>)}), pbo \in PboFiles }
    \cup
    { Request(e, "extract_files", Options(TRUE, TRUE, FALSE, FALSE, f), pbo, out) :
        f \in Filters, pbo \in PboFiles, out \in OutDirs }
    \cup
    { Request(e, "extract_with_options", o, pbo, out) :
        o \in WithOptionsChoices(Filters), pbo \in PboFiles, out \in OutDirs }

ExtractorRequests ==
    { Request("DefaultExtractor", "list_contents",
              Options(FALSE, FALSE, FALSE, b, None), pbo, NoOut) :
        b \in BOOLEAN, pbo \in PboFiles }
    \cup
    { Request("DefaultExtractor", "list_with_options", o, pbo, NoOut) :
        o \in WithOptionsChoices({None, Some(<<"*",".","c","p","p">>)}), pbo \in PboFiles }
    \cup
    { Request("DefaultExtractor", "extract",
              Options(FALSE, FALSE, FALSE, FALSE, f), pbo, out) :
        f \in Filters, pbo \in PboFiles, out \in OutDirs }
    \cup
    { Request("DefaultExtractor", "extract_with_options", o, pbo, out) :
        o \in WithOptionsChoices(Filters), pbo \in PboFiles, out \in OutDirs }

ApiRequests == EngineRequests("PboApi")
SyncRequests == EngineRequests("PboCore") \cup ExtractorRequests

\* what Command::output can return: the tool's exit status and streams, or
\* an io::Error
Output(code, out, err) == [kind |-> "output", code |-> code, stdout |-> out, stderr |-> err]
SpawnError(kind) == [kind |-> kind, code |-> None, stdout |-> <<>>, stderr |-> <<>>]

CustomIndicators == { <<"C","u","s","t","o","m"," ","b","a","d"," ","i","n","d","i","c","a","t","o","r">> }

ToolOutcomes ==
    { Output(Some(0), <<"c","o","n","f","i","g",".","b","i","n">>, <<>>),
      Output(Some(0), <<"c","o","n","f","i","g",".","b","i","n">>, <<"n","o"," ","s","h","a","k","e","y"," ","o","n"," ","a","r","m","a">>),
      Output(Some(1), <<>>, <<"b","o","o","m">>),
      Output(Some(1), <<"c","o","n","f","i","g",".","b","i","n">>, <<>>),
      Output(None, <<>>, <<>>),
      Output(Some(0), <<"c","o","n","f","i","g",".","b","i","n">>, <<"B","a","d"," ","S","h","a"," ","d","e","t","e","c","t","e","d">>),
      Output(Some(0), <<"u","n","k","n","o","w","n"," ","h","e","a","d","e","r"," ","t","y","p","e">>, <<>>),
      Output(Some(0), <<"C","u","s","t","o","m"," ","b","a","d"," ","i","n","d","i","c","a","t","o","r">>, <<>>),
      SpawnError("NotFound"),
      SpawnError("PermissionDenied"),
      SpawnError("Other") }

NoTool == SpawnError("none")

-----------------------------------------------------------------------------
(* The engine as a state machine.                                           *)

\* the values a call's variables have while no call is open on the slot
EngineCallsIdle ==
    /\ request = [c \in CallIds |-> NoRequest]
    /\ callerPc = [c \in CallIds |-> "idle"]
    /\ workerPc = [c \in CallIds |-> "none"]
    /\ reaperPc = [c \in CallIds |-> "none"]
    /\ chan = [c \in CallIds |-> <<>>]
    /\ txAlive = [c \in CallIds |-> FALSE]
    /\ rxAlive = [c \in CallIds |-> FALSE]
    /\ cancelChan = [c \in CallIds |-> 0]
    /\ opResult = [c \in CallIds |-> Ok(NoResult)]
    /\ outcome = [c \in CallIds |-> <<>>]
    /\ tool = [c \in CallIds |-> NoTool]
    /\ spawns = [c \in CallIds |-> 0]
    /\ cmdline = [c \in CallIds |-> <<>>]
    /\ dirCreated = [c \in CallIds |-> FALSE]
    /\ events = [c \in CallIds |-> <<>>]

\* the engine, unused
EngineOff ==
    /\ config = PboConfigBuilder_new
    /\ timeout = DEFAULT_TIMEOUT
    /\ EngineCallsIdle

\* the seconds a caller passes to PboApiBuilder::with_timeout, when it does
TimeoutChoices == {0, 2}

\* PboConfig::builder()...build() and PboApi::builder()...build()
EngineInit ==
    /\ \E added \in SUBSET CustomIndicators :
          config = IF added = {}
                   THEN PboConfigBuilder_new
                   ELSE add_bad_indicator(PboConfigBuilder_new, CHOOSE x \in added : TRUE)
    /\ \E t \in {None} \cup {PboApiBuilder_with_timeout(s) : s \in TimeoutChoices} :
          timeout = PboApiBuilder_build_timeout(t)
    /\ EngineCallsIdle
    /\ result = NoResult
    /\ derived = NotDerived
    /\ phase = "off"
    /\ CommandOff
    /\ TempOff
    /\ BinOff
    /\ BuilderOff
    /\ DecodeOff
    /\ LockOff

OthersIdle(c) == \A d \in CallIds \ {c} : callerPc[d] = "idle"

\* a PboApi method is called: the checks on the calling thread, then
\* with_timeout creates both channels and spawns the worker
StartApiCall(c) ==
    /\ callerPc[c] = "idle"
    /\ OthersIdle(c)
    /\ \E req \in ApiRequests :
          /\ request' = [request EXCEPT ![c] = req]
          /\ IF PboApi_precheck(req).some
             THEN /\ outcome' = [outcome EXCEPT ![c] = <<PboApi_precheck(req).val>>]
                  /\ callerPc' = [callerPc EXCEPT ![c] = "done"]
                  /\ UNCHANGED <<workerPc, txAlive, rxAlive>>
             ELSE /\ callerPc' = [callerPc EXCEPT ![c] = "waiting"]
                  /\ workerPc' = [workerPc EXCEPT ![c] = "spawned"]
                  /\ txAlive' = [txAlive EXCEPT ![c] = TRUE]
                  /\ rxAlive' = [rxAlive EXCEPT ![c] = TRUE]
                  /\ UNCHANGED outcome
    /\ UNCHANGED <<config, timeout, reaperPc, chan, cancelChan, opResult, tool, spawns,
                   cmdline, dirCreated, events>>
    /\ UNCHANGED <<classifierVars, commandVars, tempVars, binVars, builderVars, decodeVars, lockVars>>

\* a PboCore or DefaultExtractor method is called: it runs on the calling
\* thread up to Command::output
StartSyncCall(c) ==
    /\ callerPc[c] = "idle"
    /\ OthersIdle(c)
    /\ \E req \in SyncRequests :
          LET pre == IF req.engine = "PboCore" THEN PboCore_precheck(req) ELSE None
              prep == Prepare(req)
          IN  /\ request' = [request EXCEPT ![c] = req]
              /\ IF pre.some
                 THEN /\ outcome' = [outcome EXCEPT ![c] = <<pre.val>>]
                      /\ callerPc' = [callerPc EXCEPT ![c] = "done"]
                      /\ UNCHANGED <<spawns, cmdline, dirCreated>>
                 ELSE IF prep.err.some
                 THEN /\ outcome' = [outcome EXCEPT ![c] = <<prep.err.val>>]
                      /\ callerPc' = [callerPc EXCEPT ![c] = "done"]
                      /\ dirCreated' = [dirCreated EXCEPT ![c] = prep.creates]
                      /\ UNCHANGED <<spawns, cmdline>>
                 ELSE /\ callerPc' = [callerPc EXCEPT ![c] = "in_tool"]
                      /\ dirCreated' = [dirCreated EXCEPT ![c] = prep.creates]
                      /\ spawns' = [spawns EXCEPT ![c] = @ + 1]
                      /\ cmdline' = [cmdline EXCEPT ![c] = prep.cmdline]
                      /\ UNCHANGED outcome
    /\ UNCHANGED <<config, timeout, workerPc, reaperPc, chan, txAlive, rxAlive, cancelChan,
                   opResult, tool, events>>
    /\ UNCHANGED <<classifierVars, commandVars, tempVars, binVars, builderVars, decodeVars, lockVars>>

\* Command::output returns on the calling thread and the method returns
SyncToolReturns(c) ==
    /\ callerPc[c] = "in_tool"
    /\ \E out \in ToolOutcomes :
          /\ tool' = [tool EXCEPT ![c] = out]
          /\ outcome' = [outcome EXCEPT ![c] = <<Finish(request[c], out)>>]
    /\ callerPc' = [callerPc EXCEPT ![c] = "done"]
    /\ UNCHANGED <<config, timeout, request, workerPc, reaperPc, chan, txAlive, rxAlive,
                   cancelChan, opResult, spawns, cmdline, dirCreated, events>>
    /\ UNCHANGED <<classifierVars, commandVars, tempVars, binVars, builderVars, decodeVars, lockVars>>

\* the worker runs the operation up to Command::output
WorkerRuns(c) ==
    /\ workerPc[c] = "spawned"
    /\ LET prep == Prepare(request[c])
       IN  /\ dirCreated' = [dirCreated EXCEPT ![c] = prep.creates]
           /\ IF prep.err.some
              THEN /\ opResult' = [opResult EXCEPT ![c] = prep.err.val]
                   /\ workerPc' = [workerPc EXCEPT ![c] = "op_done"]
                   /\ UNCHANGED <<spawns, cmdline>>
              ELSE /\ workerPc' = [workerPc EXCEPT ![c] = "in_tool"]
                   /\ spawns' = [spawns EXCEPT ![c] = @ + 1]
                   /\ cmdline' = [cmdline EXCEPT ![c] = prep.cmdline]
                   /\ UNCHANGED opResult
    /\ UNCHANGED <<config, timeout, request, callerPc, reaperPc, chan, txAlive, rxAlive,
                   cancelChan, outcome, tool, events>>
    /\ UNCHANGED <<classifierVars, commandVars, tempVars, binVars, builderVars, decodeVars, lockVars>>

\* Command::output returns on the worker and the operation returns
WorkerToolReturns(c) ==
    /\ workerPc[c] = "in_tool"
    /\ \E out \in ToolOutcomes :
          /\ tool' = [tool EXCEPT ![c] = out]
          /\ opResult' = [opResult EXCEPT ![c] = Finish(request[c], out)]
    /\ workerPc' = [workerPc EXCEPT ![c] = "op_done"]
    /\ UNCHANGED <<config, timeout, request, callerPc, reaperPc, chan, txAlive, rxAlive,
                   cancelChan, outcome, spawns, cmdline, dirCreated, events>>
    /\ UNCHANGED <<classifierVars, commandVars, tempVars, binVars, builderVars, decodeVars, lockVars>>

\* the worker's cancel_rx.try_recv(): with a signal queued it returns,
\* dropping tx without sending
WorkerChecksCancel(c) ==
    /\ workerPc[c] = "op_done"
    /\ IF cancelChan[c] > 0
       THEN /\ workerPc' = [workerPc EXCEPT ![c] = "exited"]
            /\ cancelChan' = [cancelChan EXCEPT ![c] = @ - 1]
            /\ txAlive' = [txAlive EXCEPT ![c] = FALSE]
            /\ events' = [events EXCEPT ![c] = Append(@, "abandoned")]
       ELSE /\ workerPc' = [workerPc EXCEPT ![c] = "sending"]
            /\ UNCHANGED <<cancelChan, txAlive, events>>
    /\ UNCHANGED <<config, timeout, request, callerPc, reaperPc, chan, rxAlive, opResult,
                   outcome, tool, spawns, cmdline, dirCreated>>
    /\ UNCHANGED <<classifierVars, commandVars, tempVars, binVars, builderVars, decodeVars, lockVars>>

WorkerSends_on_one_channel(c) ==
    /\ workerPc[c] = "sending"
    /\ chan' = [chan EXCEPT ![1] = Append(@, opResult[c])]
    /\ events' = [events EXCEPT ![c] = Append(@, "sent")]
    /\ workerPc' = [workerPc EXCEPT ![c] = "exited"]
    /\ txAlive' = [txAlive EXCEPT ![c] = FALSE]
    /\ UNCHANGED <<config, timeout, request, callerPc, reaperPc, rxAlive, cancelChan,
                   opResult, outcome, tool, spawns, cmdline, dirCreated>>
    /\ UNCHANGED <<classifierVars, commandVars, tempVars, binVars, builderVars, decodeVars, lockVars>>

\* the worker's tx.send(result), after which the thread ends: the result is
\* queued while rx lives and dropped otherwise
WorkerSends(c) ==
    /\ workerPc[c] = "sending"
    /\ IF rxAlive[c]
       THEN /\ chan' = [chan EXCEPT ![c] = Append(@, opResult[c])]
            /\ events' = [events EXCEPT ![c] = Append(@, "sent")]
       ELSE /\ events' = [events EXCEPT ![c] = Append(@, "send_failed")]
            /\ UNCHANGED chan
    /\ workerPc' = [workerPc EXCEPT ![c] = "exited"]
    /\ txAlive' = [txAlive EXCEPT ![c] = FALSE]
    /\ UNCHANGED <<config, timeout, request, callerPc, reaperPc, rxAlive, cancelChan,
                   opResult, outcome, tool, spawns, cmdline, dirCreated>>
    /\ UNCHANGED <<classifierVars, commandVars, tempVars, binVars, builderVars, decodeVars, lockVars>>

\* the worker thread panics inside the operation: tx is dropped unsent
WorkerPanics(c) ==
    /\ workerPc[c] \in {"spawned", "in_tool"}
    /\ workerPc' = [workerPc EXCEPT ![c] = "panicked"]
    /\ txAlive' = [txAlive EXCEPT ![c] = FALSE]
    /\ events' = [events EXCEPT ![c] = Append(@, "died")]
    /\ UNCHANGED <<config, timeout, request, callerPc, reaperPc, chan, rxAlive, cancelChan,
                   opResult, outcome, tool, spawns, cmdline, dirCreated>>
    /\ UNCHANGED <<classifierVars, commandVars, tempVars, binVars, builderVars, decodeVars, lockVars>>

\* rx.recv_timeout(timeout) returns to the caller
CallerReceives(c) ==
    /\ callerPc[c] = "waiting"
    /\ LET got == recv_timeout(chan[c], txAlive[c])
       IN  /\ events' = [events EXCEPT ![c] = Append(@, "recv")]
           /\ IF got = "Ok"
              THEN /\ outcome' = [outcome EXCEPT ![c] = Append(@, Head(chan[c]))]
                   /\ chan' = [chan EXCEPT ![c] = Tail(@)]
                   /\ callerPc' = [callerPc EXCEPT ![c] = "done"]
                   /\ rxAlive' = [rxAlive EXCEPT ![c] = FALSE]
              ELSE IF got = "Disconnected"
              THEN /\ outcome' = [outcome EXCEPT ![c] = Append(@, canceled_error)]
                   /\ callerPc' = [callerPc EXCEPT ![c] = "done"]
                   /\ rxAlive' = [rxAlive EXCEPT ![c] = FALSE]
                   /\ UNCHANGED chan
              ELSE /\ callerPc' = [callerPc EXCEPT ![c] = "timed_out"]
                   /\ UNCHANGED <<outcome, chan, rxAlive>>
    /\ UNCHANGED <<config, timeout, request, workerPc, reaperPc, txAlive, cancelChan,
                   opResult, tool, spawns, cmdline, dirCreated>>
    /\ UNCHANGED <<classifierVars, commandVars, tempVars, binVars, builderVars, decodeVars, lockVars>>

\* the Timeout arm: cancel_tx.send(()), which fails once the worker is gone
CallerSendsCancel(c) ==
    /\ callerPc[c] = "timed_out"
    /\ cancelChan' = [cancelChan EXCEPT ![c] =
                         IF workerPc[c] \in {"exited", "panicked"} THEN @ ELSE @ + 1]
    /\ callerPc' = [callerPc EXCEPT ![c] = "cancel_sent"]
    /\ UNCHANGED <<config, timeout, request, workerPc, reaperPc, chan, txAlive, rxAlive,
                   opResult, outcome, tool, spawns, cmdline, dirCreated, events>>
    /\ UNCHANGED <<classifierVars, commandVars, tempVars, binVars, builderVars, decodeVars, lockVars>>

CallerReturnsTimeout_keeping_rx(c) ==
    /\ callerPc[c] = "cancel_sent"
    /\ reaperPc' = [reaperPc EXCEPT ![c] = "sleeping"]
    /\ outcome' = [outcome EXCEPT ![c] = Append(@, timeout_error(timeout))]
    /\ callerPc' = [callerPc EXCEPT ![c] = "done"]
    /\ UNCHANGED <<rxAlive, chan>>
    /\ UNCHANGED <<config, timeout, request, workerPc, txAlive, cancelChan, opResult, tool,
                   spawns, cmdline, dirCreated, events>>
    /\ UNCHANGED <<classifierVars, commandVars, tempVars, binVars, builderVars, decodeVars, lockVars>>

\* the Timeout arm: the reaper thread is spawned and with_timeout returns
\* Err(Timeout), dropping rx and whatever is queued on it
CallerReturnsTimeout(c) ==
    /\ callerPc[c] = "cancel_sent"
    /\ reaperPc' = [reaperPc EXCEPT ![c] = "sleeping"]
    /\ outcome' = [outcome EXCEPT ![c] = Append(@, timeout_error(timeout))]
    /\ callerPc' = [callerPc EXCEPT ![c] = "done"]
    /\ rxAlive' = [rxAlive EXCEPT ![c] = FALSE]
    /\ chan' = [chan EXCEPT ![c] = <<>>]
    /\ UNCHANGED <<config, timeout, request, workerPc, txAlive, cancelChan, opResult, tool,
                   spawns, cmdline, dirCreated, events>>
    /\ UNCHANGED <<classifierVars, commandVars, tempVars, binVars, builderVars, decodeVars, lockVars>>

\* the reaper's sleep of one second ends
ReaperWakes(c) ==
    /\ reaperPc[c] = "sleeping"
    /\ reaperPc' = [reaperPc EXCEPT ![c] = "joining"]
    /\ UNCHANGED <<config, timeout, request, callerPc, workerPc, chan, txAlive, rxAlive,
                   cancelChan, opResult, outcome, tool, spawns, cmdline, dirCreated, events>>
    /\ UNCHANGED <<classifierVars, commandVars, tempVars, binVars, builderVars, decodeVars, lockVars>>

\* handle.join() returns once the worker thread has ended
ReaperJoins(c) ==
    /\ reaperPc[c] = "joining"
    /\ workerPc[c] \in {"exited", "panicked"}
    /\ reaperPc' = [reaperPc EXCEPT ![c] = "done"]
    /\ UNCHANGED <<config, timeout, request, callerPc, workerPc, chan, txAlive, rxAlive,
                   cancelChan, opResult, outcome, tool, spawns, cmdline, dirCreated, events>>
    /\ UNCHANGED <<classifierVars, commandVars, tempVars, binVars, builderVars, decodeVars, lockVars>>

\* a finished call whose threads have all ended is forgotten and its slot
\* can take the next call
CallForgotten(c) ==
    /\ callerPc[c] = "done"
    /\ workerPc[c] \in {"none", "exited", "panicked"}
    /\ reaperPc[c] \in {"none", "done"}
    /\ request' = [request EXCEPT ![c] = NoRequest]
    /\ callerPc' = [callerPc EXCEPT ![c] = "idle"]
    /\ workerPc' = [workerPc EXCEPT ![c] = "none"]
    /\ reaperPc' = [reaperPc EXCEPT ![c] = "none"]
    /\ chan' = [chan EXCEPT ![c] = <<>>]
    /\ txAlive' = [txAlive EXCEPT ![c] = FALSE]
    /\ rxAlive' = [rxAlive EXCEPT ![c] = FALSE]
    /\ cancelChan' = [cancelChan EXCEPT ![c] = 0]
    /\ opResult' = [opResult EXCEPT ![c] = Ok(NoResult)]
    /\ outcome' = [outcome EXCEPT ![c] = <<>>]
    /\ tool' = [tool EXCEPT ![c] = NoTool]
    /\ spawns' = [spawns EXCEPT ![c] = 0]
    /\ cmdline' = [cmdline EXCEPT ![c] = <<>>]
    /\ dirCreated' = [dirCreated EXCEPT ![c] = FALSE]
    /\ events' = [events EXCEPT ![c] = <<>>]
    /\ UNCHANGED <<config, timeout>>
    /\ UNCHANGED <<classifierVars, commandVars, tempVars, binVars, builderVars, decodeVars, lockVars>>

Next ==
    \E c \in CallIds :
        \/ StartApiCall(c)
        \/ StartSyncCall(c)
        \/ SyncToolReturns(c)
        \/ WorkerRuns(c)
        \/ WorkerToolReturns(c)
        \/ WorkerChecksCancel(c)
        \/ WorkerSends(c)
        \/ WorkerPanics(c)
        \/ CallerReceives(c)
        \/ CallerSendsCancel(c)
        \/ CallerReturnsTimeout(c)
        \/ ReaperWakes(c)
        \/ ReaperJoins(c)
        \/ CallForgotten(c)

Init == EngineInit

Spec == Init /\ [][Next]_vars

-----------------------------------------------------------------------------
(* run_extractpbo_command over argument lists in any order.                 *)

\* an argument list has at most this many tokens
MaxArgs == 3

ArgTokens ==
    { <<"-","L">>, <<"-","N">>, <<"-","F","=","*",".","c","p","p">>, <<"-","a",".","b">>, <<"/","t","/","o","u","t">>, <<"/","t","/","b">>, <<"/","t","/","o","'","u","t">> }

CommandPbos ==
    { [path |-> <<"a",".","p","b","o">>, exists |-> TRUE],
      [path |-> <<"-","x",".","p","b","o">>, exists |-> TRUE],
      [path |-> <<"\\","\\","?","\\","C",":","\\","a",".","p","b","o">>, exists |-> TRUE],
      [path |-> <<"a",".","t","x","t">>, exists |-> TRUE] }

CommandInit ==
    /\ \E args \in SeqsUpTo(ArgTokens, MaxArgs) :
       \E pbo \in CommandPbos :
           cmdIn = [args |-> args, pbo |-> pbo]
    /\ cmdOut = [built |-> FALSE, err |-> None, cmdline |-> <<>>]
    /\ result = NoResult
    /\ derived = NotDerived
    /\ phase = "off"
    /\ EngineOff
    /\ TempOff
    /\ BinOff
    /\ BuilderOff
    /\ DecodeOff
    /\ LockOff

\* run_extractpbo_command up to Command::output
BuildCommand ==
    /\ ~cmdOut.built
    /\ LET run == run_extractpbo_command(cmdIn.args, cmdIn.pbo)
       IN  cmdOut' = [built |-> TRUE, err |-> run.err, cmdline |-> run.cmdline]
    /\ UNCHANGED cmdIn
    /\ UNCHANGED <<classifierVars, engineVars, tempVars, binVars, builderVars, decodeVars, lockVars>>

CommandNext == BuildCommand

CommandSpec == CommandInit /\ [][CommandNext]_vars

-----------------------------------------------------------------------------
(* The scratch directories (src/fs/temp.rs).                                *)

\* the scratch directories ever created, and the manager handles ever made
MaxDirs == 3
MaxManagers == 2

DirIds == 1..MaxDirs
ManagerIds == 1..MaxManagers

\* TempFileManager::new: one manager with an empty registry
TempFileManager_new ==
    /\ managers = {1}
    /\ active_dirs = [m \in ManagerIds |-> {}]
    /\ disk = {}
    /\ handles = {}
    /\ expired = {}
    /\ creator = [d \in DirIds |-> 0]
    /\ removals = {}

TempInit ==
    /\ TempFileManager_new
    /\ result = NoResult
    /\ derived = NotDerived
    /\ phase = "off"
    /\ EngineOff
    /\ CommandOff
    /\ BinOff
    /\ BuilderOff
    /\ DecodeOff
    /\ LockOff

\* the registered paths that cleanup_old_dirs finds expired: those whose
\* metadata can be read, which takes the directory to exist, and whose age
\* exceeds max_age
ExpiredOf(m) == { d \in active_dirs[m] : d \in disk /\ d \in expired }

\* TempFileManager::cleanup_old_dirs: the state it leaves
cleanup_old_dirs(m) ==
    [active |-> active_dirs[m] \ ExpiredOf(m),
     disk |-> disk \ ExpiredOf(m),
     removals |-> removals \cup { <<m, d>> : d \in ExpiredOf(m) }]

\* TempFileManager::create_temp_dir: cleanup, then a directory of a fresh
\* name is created, registered and returned as a TempDir
CreateTempDir(m) ==
    /\ m \in managers
    /\ \E d \in DirIds :
          /\ creator[d] = 0
          /\ \A e \in DirIds : e < d => creator[e] # 0
          /\ LET after == cleanup_old_dirs(m)
             IN  /\ disk' = after.disk \cup {d}
                 /\ active_dirs' = [active_dirs EXCEPT ![m] = after.active \cup {d}]
                 /\ removals' = after.removals
          /\ handles' = handles \cup {d}
          /\ creator' = [creator EXCEPT ![d] = m]
    /\ UNCHANGED <<managers, expired>>
    /\ UNCHANGED <<classifierVars, engineVars, commandVars, binVars, builderVars, decodeVars, lockVars>>

\* cleanup_old_dirs called on its own
CleanupOldDirs(m) ==
    /\ m \in managers
    /\ LET after == cleanup_old_dirs(m)
       IN  /\ disk' = after.disk
           /\ active_dirs' = [active_dirs EXCEPT ![m] = after.active]
           /\ removals' = after.removals
    /\ UNCHANGED <<managers, handles, expired, creator>>
    /\ UNCHANGED <<classifierVars, engineVars, commandVars, binVars, builderVars, decodeVars, lockVars>>

\* impl Drop for TempDir: remove_dir_all of the path
DropTempDir(d) ==
    /\ d \in handles
    /\ handles' = handles \ {d}
    /\ disk' = disk \ {d}
    /\ UNCHANGED <<managers, active_dirs, expired, creator, removals>>
    /\ UNCHANGED <<classifierVars, engineVars, commandVars, binVars, builderVars, decodeVars, lockVars>>

\* impl Clone for TempFileManager: the new handle starts with a copy of the
\* registry
CloneManager(m) ==
    /\ m \in managers
    /\ \E n \in ManagerIds \ managers :
          /\ managers' = managers \cup {n}
          /\ active_dirs' = [active_dirs EXCEPT ![n] = active_dirs[m]]
    /\ UNCHANGED <<disk, handles, expired, creator, removals>>
    /\ UNCHANGED <<classifierVars, engineVars, commandVars, binVars, builderVars, decodeVars, lockVars>>

\* time passes: max_age has gone by since a directory was created
DirExpires(d) ==
    /\ creator[d] # 0
    /\ d \notin expired
    /\ expired' = expired \cup {d}
    /\ UNCHANGED <<managers, active_dirs, disk, handles, creator, removals>>
    /\ UNCHANGED <<classifierVars, engineVars, commandVars, binVars, builderVars, decodeVars, lockVars>>

TempNext ==
    \/ \E m \in ManagerIds : CreateTempDir(m) \/ CleanupOldDirs(m) \/ CloneManager(m)
    \/ \E d \in DirIds : DropTempDir(d) \/ DirExpires(d)

TempSpec == TempInit /\ [][TempNext]_vars

-----------------------------------------------------------------------------
(* The same manager used by several threads, a step at a time: what each    *)
(* thread does while it holds the active_dirs mutex.                        *)

\* the threads that share the manager
NumThreads == 2
ThreadIds == 1..NumThreads

At(op, at) == [op |-> op, at |-> at]
Idle == At("", "idle")

LockInit ==
    /\ TempFileManager_new
    /\ threadPc = [t \in ThreadIds |-> Idle]
    /\ lock = 0
    /\ pending = [t \in ThreadIds |-> {}]
    /\ lockedIo = {}
    /\ result = NoResult
    /\ derived = NotDerived
    /\ phase = "off"
    /\ EngineOff
    /\ CommandOff
    /\ BinOff
    /\ BuilderOff
    /\ DecodeOff

\* a file-system call of thread t, noted when t holds the mutex
Io(t, call) == IF lock = t THEN lockedIo \cup {<<t, call>>} ELSE lockedIo

\* a thread calls create_temp_dir or cleanup_old_dirs; both begin with
\* cleanup_old_dirs, which begins with active_dirs.lock()
StartTempCall(t) ==
    /\ threadPc[t] = Idle
    /\ \E op \in {"create_temp_dir", "cleanup_old_dirs"} :
          /\ op = "create_temp_dir" =>
                Cardinality({ d \in DirIds : creator[d] = 0 })
                    > Cardinality({ u \in ThreadIds : threadPc[u].op = "create_temp_dir" })
          /\ threadPc' = [threadPc EXCEPT ![t] = At(op, "cleanup_lock")]
    /\ UNCHANGED <<lock, pending, lockedIo>>
    /\ UNCHANGED <<classifierVars, engineVars, commandVars, tempVars, binVars, builderVars, decodeVars>>

\* cleanup_old_dirs: active_dirs.lock() returns the guard
LockForCleanup(t) ==
    /\ threadPc[t].at = "cleanup_lock"
    /\ lock = 0
    /\ lock' = t
    /\ threadPc' = [threadPc EXCEPT ![t].at = "filter"]
    /\ UNCHANGED <<pending, lockedIo>>
    /\ UNCHANGED <<classifierVars, engineVars, commandVars, tempVars, binVars, builderVars, decodeVars>>

\* cleanup_old_dirs: the filter over the registry, path.metadata() per path
FilterExpired(t) ==
    /\ threadPc[t].at = "filter"
    /\ pending' = [pending EXCEPT ![t] = ExpiredOf(1)]
    /\ lockedIo' = IF active_dirs[1] # {} THEN Io(t, "metadata") ELSE lockedIo
    /\ threadPc' = [threadPc EXCEPT ![t].at = "remove"]
    /\ UNCHANGED lock
    /\ UNCHANGED <<classifierVars, engineVars, commandVars, tempVars, binVars, builderVars, decodeVars>>

\* cleanup_old_dirs: one round of the loop over the expired paths,
\* remove_dir_all(&path) and active_dirs.remove(&path)
RemoveExpired(t) ==
    /\ threadPc[t].at = "remove"
    /\ \E d \in pending[t] :
          /\ disk' = disk \ {d}
          /\ active_dirs' = [active_dirs EXCEPT ![1] = @ \ {d}]
          /\ removals' = removals \cup {<<1, d>>}
          /\ pending' = [pending EXCEPT ![t] = @ \ {d}]
    /\ lockedIo' = Io(t, "remove_dir_all")
    /\ UNCHANGED <<threadPc, lock>>
    /\ UNCHANGED <<managers, handles, expired, creator>>
    /\ UNCHANGED <<classifierVars, engineVars, commandVars, binVars, builderVars, decodeVars>>

\* cleanup_old_dirs: the guard goes out of scope and the function returns
UnlockAfterCleanup(t) ==
    /\ threadPc[t].at = "remove"
    /\ pending[t] = {}
    /\ lock' = 0
    /\ threadPc' = [threadPc EXCEPT ![t] =
                       IF @.op = "create_temp_dir" THEN At(@.op, "create") ELSE Idle]
    /\ UNCHANGED <<pending, lockedIo>>
    /\ UNCHANGED <<classifierVars, engineVars, commandVars, tempVars, binVars, builderVars, decodeVars>>

\* create_temp_dir: create_dir_all(&self.temp_base) and TempDir::new
CreateDirectories(t) ==
    /\ threadPc[t].at = "create"
    /\ \E d \in DirIds :
          /\ creator[d] = 0
          /\ \A e \in DirIds : e < d => creator[e] # 0
          /\ disk' = disk \cup {d}
          /\ handles' = handles \cup {d}
          /\ creator' = [creator EXCEPT ![d] = 1]
          /\ pending' = [pending EXCEPT ![t] = {d}]
    /\ lockedIo' = Io(t, "create_dir_all")
    /\ threadPc' = [threadPc EXCEPT ![t].at = "insert_lock"]
    /\ UNCHANGED lock
    /\ UNCHANGED <<managers, active_dirs, expired, removals>>
    /\ UNCHANGED <<classifierVars, engineVars, commandVars, binVars, builderVars, decodeVars>>

\* create_temp_dir: active_dirs.lock() returns the guard
LockForInsert(t) ==
    /\ threadPc[t].at = "insert_lock"
    /\ lock = 0
    /\ lock' = t
    /\ threadPc' = [threadPc EXCEPT ![t].at = "insert"]
    /\ UNCHANGED <<pending, lockedIo>>
    /\ UNCHANGED <<classifierVars, engineVars, commandVars, tempVars, binVars, builderVars, decodeVars>>

\* create_temp_dir: active_dirs.insert(path), after which the guard goes
\* out of scope and the TempDir is returned
InsertPath(t) ==
    /\ threadPc[t].at = "insert"
    /\ active_dirs' = [active_dirs EXCEPT ![1] = @ \cup pending[t]]
    /\ pending' = [pending EXCEPT ![t] = {}]
    /\ lock' = 0
    /\ threadPc' = [threadPc EXCEPT ![t] = Idle]
    /\ UNCHANGED lockedIo
    /\ UNCHANGED <<managers, disk, handles, expired, creator, removals>>
    /\ UNCHANGED <<classifierVars, engineVars, commandVars, binVars, builderVars, decodeVars>>

LockNext ==
    \/ \E t \in ThreadIds :
          \/ StartTempCall(t)
          \/ LockForCleanup(t)
          \/ FilterExpired(t)
          \/ RemoveExpired(t)
          \/ UnlockAfterCleanup(t)
          \/ CreateDirectories(t)
          \/ LockForInsert(t)
          \/ InsertPath(t)
    \/ \E d \in DirIds : DropTempDir(d) \/ DirExpires(d)

LockSpec == LockInit /\ [][LockNext]_vars

-----------------------------------------------------------------------------
(* Concurrent list calls on clones of one handle (tests/api/timeout.rs).    *)

\* the archive every thread lists, and what the tool prints for it
ParallelPbo == [path |-> <<"a",".","p","b","o">>, exists |-> TRUE]
ParallelOutput == Output(Some(0), <<"c","o","n","f","i","g",".","b","i","n","\n","d","a","t","a","/","a",".","p","a","a">>, <<>>)

\* let api = PboApi::new(30), before any thread is spawned
ParallelInit ==
    /\ config = PboConfigBuilder_new
    /\ timeout = PboApiBuilder_build_timeout(PboApiBuilder_with_timeout(30))
    /\ EngineCallsIdle
    /\ result = NoResult
    /\ derived = NotDerived
    /\ phase = "off"
    /\ CommandOff
    /\ TempOff
    /\ BinOff
    /\ BuilderOff
    /\ DecodeOff
    /\ LockOff

\* api.clone().list_contents(&pbo_path) on a thread of its own: the call
\* starts whatever the other calls are doing
StartListCall(c) ==
    /\ callerPc[c] = "idle"
    /\ LET req == Request("PboApi", "list_contents",
                          Options(TRUE, TRUE, FALSE, FALSE, None), ParallelPbo, NoOut)
       IN  /\ ~PboApi_precheck(req).some
           /\ request' = [request EXCEPT ![c] = req]
    /\ callerPc' = [callerPc EXCEPT ![c] = "waiting"]
    /\ workerPc' = [workerPc EXCEPT ![c] = "spawned"]
    /\ txAlive' = [txAlive EXCEPT ![c] = TRUE]
    /\ rxAlive' = [rxAlive EXCEPT ![c] = TRUE]
    /\ events' = [events EXCEPT ![c] =
                     IF \E d \in CallIds \ {c} : callerPc[d] = "waiting"
                     THEN <<"overlapped">> ELSE <<>>]
    /\ UNCHANGED <<config, timeout, reaperPc, chan, cancelChan, opResult, outcome, tool,
                   spawns, cmdline, dirCreated>>
    /\ UNCHANGED <<classifierVars, commandVars, tempVars, binVars, builderVars, decodeVars, lockVars>>

\* Command::output returns on the worker: the tool succeeded
WorkerToolSucceeds(c) ==
    /\ workerPc[c] = "in_tool"
    /\ tool' = [tool EXCEPT ![c] = ParallelOutput]
    /\ opResult' = [opResult EXCEPT ![c] = Finish(request[c], ParallelOutput)]
    /\ workerPc' = [workerPc EXCEPT ![c] = "op_done"]
    /\ UNCHANGED <<config, timeout, request, callerPc, reaperPc, chan, txAlive, rxAlive,
                   cancelChan, outcome, spawns, cmdline, dirCreated, events>>
    /\ UNCHANGED <<classifierVars, commandVars, tempVars, binVars, builderVars, decodeVars, lockVars>>

ParallelNext ==
    \E c \in CallIds :
        \/ StartListCall(c)
        \/ WorkerRuns(c)
        \/ WorkerToolSucceeds(c)
        \/ WorkerChecksCancel(c)
        \/ WorkerSends(c)
        \/ CallerReceives(c)
        \/ CallerSendsCancel(c)
        \/ CallerReturnsTimeout(c)
        \/ ReaperWakes(c)
        \/ ReaperJoins(c)

ParallelSpec == ParallelInit /\ [][ParallelNext]_vars

-----------------------------------------------------------------------------
(* Calls in sequence under the scheduling the threads can count on: a      *)
(* thread that can take its next step takes it, recv_timeout and the       *)
(* reaper's sleep end, and nothing says the operation itself ever returns. *)

\* one thread makes its calls one after the other: the next call starts
\* when the one before it has returned, whatever the threads that call left
\* behind are doing
StartListCallInTurn(c) ==
    /\ \A d \in CallIds : d < c => callerPc[d] = "done"
    /\ StartListCall(c)

LiveNext ==
    \E c \in CallIds :
        \/ StartListCallInTurn(c)
        \/ WorkerRuns(c)
        \/ WorkerToolSucceeds(c)
        \/ WorkerChecksCancel(c)
        \/ WorkerSends(c)
        \/ CallerReceives(c)
        \/ CallerSendsCancel(c)
        \/ CallerReturnsTimeout(c)
        \/ ReaperWakes(c)
        \/ ReaperJoins(c)

\* the steps of with_timeout outside the operation
LiveFairness ==
    \A c \in CallIds :
        /\ WF_vars(CallerReceives(c))
        /\ WF_vars(CallerSendsCancel(c))
        /\ WF_vars(CallerReturnsTimeout(c))
        /\ WF_vars(WorkerChecksCancel(c))
        /\ WF_vars(WorkerSends(c))
        /\ WF_vars(ReaperWakes(c))
        /\ WF_vars(ReaperJoins(c))

LiveSpec == ParallelInit /\ [][LiveNext]_vars /\ LiveFairness

-----------------------------------------------------------------------------
(* The content decoder (src/fs/binary.rs).  Bytes are 0..255, decoded text  *)
(* is a sequence of code points.                                            *)

\* the bytes of one buffer
MaxBytes == 4

\* U+FFFD REPLACEMENT CHARACTER
REPLACEMENT == 65533

\* the continuation bytes a UTF-8 lead byte asks for (-1: not a lead byte)
Utf8Needed(b) ==
    IF b < 128 THEN 0
    ELSE IF b >= 194 /\ b <= 223 THEN 1
    ELSE IF b >= 224 /\ b <= 239 THEN 2
    ELSE IF b >= 240 /\ b <= 244 THEN 3
    ELSE -1

\* whether c can be the k-th byte after the lead byte b
Utf8Continues(b, k, c) ==
    IF k = 1
    THEN /\ c >= (IF b = 224 THEN 160 ELSE IF b = 240 THEN 144 ELSE 128)
         /\ c <= (IF b = 237 THEN 159 ELSE IF b = 244 THEN 143 ELSE 191)
    ELSE c >= 128 /\ c <= 191

\* how many of the bytes after position i continue the sequence led by s[i]
Utf8Good(s, i) ==
    LET need == Utf8Needed(s[i])
        fits(k) == i + k <= Len(s) /\ Utf8Continues(s[i], k, s[i + k])
    IN  IF need >= 1 /\ fits(1)
        THEN IF need >= 2 /\ fits(2)
             THEN IF need >= 3 /\ fits(3) THEN 3 ELSE 2
             ELSE 1
        ELSE 0

\* the code point of the complete sequence at position i
Utf8CodePoint(s, i) ==
    LET need == Utf8Needed(s[i])
        lead == IF need = 0 THEN s[i]
                ELSE IF need = 1 THEN s[i] - 192
                ELSE IF need = 2 THEN s[i] - 224
                ELSE s[i] - 240
        tail(k) == s[i + k] - 128
    IN  IF need = 0 THEN lead
        ELSE IF need = 1 THEN lead * 64 + tail(1)
        ELSE IF need = 2 THEN (lead * 64 + tail(1)) * 64 + tail(2)
        ELSE ((lead * 64 + tail(1)) * 64 + tail(2)) * 64 + tail(3)

\* the UTF-8 decoder from position i on: a code point for every complete
\* sequence, -1 for every malformed one
RECURSIVE Utf8From(_, _)
Utf8From(s, i) ==
    IF i > Len(s) THEN <<>>
    ELSE IF Utf8Needed(s[i]) >= 0 /\ Utf8Good(s, i) = Utf8Needed(s[i])
    THEN <<Utf8CodePoint(s, i)>> \o Utf8From(s, i + 1 + Utf8Needed(s[i]))
    ELSE <<-1>> \o Utf8From(s, i + 1 + Utf8Good(s, i))

\* String::from_utf8: the text, or None when a sequence is malformed
from_utf8(s) ==
    LET cps == Utf8From(s, 1)
    IN  IF \E i \in 1..Len(cps) : cps[i] = -1 THEN None ELSE Some(cps)

\* UTF_8.decode(..).0 on a buffer that starts with no byte-order mark:
\* malformed sequences become U+FFFD
UTF_8_decode(s) ==
    LET cps == Utf8From(s, 1)
    IN  [i \in 1..Len(cps) |-> IF cps[i] = -1 THEN REPLACEMENT ELSE cps[i]]

\* the code points Windows-1252 gives the bytes 0x80..0x9F
WINDOWS_1252_HIGH ==
    << 8364, 129, 8218, 402, 8222, 8230, 8224, 8225, 710, 8240, 352, 8249, 338, 141, 381, 143,
       144, 8216, 8217, 8220, 8221, 8226, 8211, 8212, 732, 8482, 353, 8250, 339, 157, 382, 376 >>

\* WINDOWS_1252.decode: every byte has a code point, had_errors is false
WINDOWS_1252_decode(s) ==
    [text |-> [i \in 1..Len(s) |->
                  IF s[i] >= 128 /\ s[i] <= 159 THEN WINDOWS_1252_HIGH[s[i] - 127] ELSE s[i]],
     had_errors |-> FALSE]

\* BinaryContent::appears_binary (the buffers here are shorter than the
\* sample of 1024 bytes)
appears_binary(s) ==
    LET n == Len(s)
        freq(b) == Cardinality({ i \in 1..n : s[i] = b })
        nulls == freq(0)
        controls == Cardinality({ i \in 1..n :
                        /\ s[i] # 0
                        /\ (s[i] < 9 \/ (s[i] > 13 /\ s[i] < 32) \/ s[i] = 127) })
        first == IF n >= 2 THEN <<s[1], s[2]>> ELSE <<>>
    IN  IF n = 0 THEN FALSE
        ELSE \/ \E i \in 1..n : freq(s[i]) * 10 > 3 * n
             \/ nulls * 20 > n
             \/ controls * 10 > n
             \/ first \in { <<255, 216>>, <<66, 77>>, <<137, 80>>, <<80, 75>>,
                            <<255, 254>>, <<254, 255>> }

EncodingError(context) == Err("Encoding", "", context)

\* BinaryContent::decode_text
decode_text(s) ==
    IF Len(s) >= 3 /\ SubSeq(s, 1, 3) = <<239, 187, 191>>
    THEN IF from_utf8(SubSeq(s, 4, Len(s))).some
         THEN Ok(from_utf8(SubSeq(s, 4, Len(s))).val)
         ELSE EncodingError(<<"I","n","v","a","l","i","d"," ","U","T","F","-","8"," ","w","i","t","h"," ","B","O","M">>)
    ELSE IF \A i \in 1..Len(UTF_8_decode(s)) : UTF_8_decode(s)[i] # 0
    THEN Ok(UTF_8_decode(s))
    ELSE IF /\ ~appears_binary(s)
            /\ ~WINDOWS_1252_decode(s).had_errors
            /\ \A i \in 1..Len(s) : WINDOWS_1252_decode(s).text[i] # 0
    THEN Ok(WINDOWS_1252_decode(s).text)
    ELSE EncodingError(IF appears_binary(s)
                       THEN <<"C","o","n","t","e","n","t"," ","a","p","p","e","a","r","s"," ","t","o"," ","b","e"," ","b","i","n","a","r","y"," ","d","a","t","a">>
                       ELSE <<"C","o","n","t","e","n","t"," ","c","o","n","t","a","i","n","s"," ","i","n","v","a","l","i","d"," ","c","h","a","r","a","c","t","e","r"," ","s","e","q","u","e","n","c","e","s">>)

\* the bytes the buffers are made of: NUL, 'H', the Windows-1252 pound sign
\* (also a UTF-8 continuation byte), a UTF-8 lead byte, the three bytes of
\* the UTF-8 byte-order mark, and a byte that is never UTF-8
ByteChoices == {0, 72, 163, 194, 239, 187, 191, 255}

DecodeInit ==
    /\ content \in SeqsUpTo(ByteChoices, MaxBytes)
    /\ decoded = [done |-> FALSE, value |-> <<>>]
    /\ result = NoResult
    /\ derived = NotDerived
    /\ phase = "off"
    /\ EngineOff
    /\ CommandOff
    /\ TempOff
    /\ BinOff
    /\ BuilderOff
    /\ LockOff

\* content.decode_text()
DecodeText ==
    /\ ~decoded.done
    /\ decoded' = [done |-> TRUE, value |-> decode_text(content)]
    /\ UNCHANGED content
    /\ UNCHANGED <<classifierVars, engineVars, commandVars, tempVars, binVars, builderVars, lockVars>>

DecodeSpec == DecodeInit /\ [][DecodeText]_vars

-----------------------------------------------------------------------------
(* Extraction into a destination directory and the pass over the extracted  *)
(* .bin files (src/core.rs, src/core/api.rs).                               *)

\* the files one run of the tool writes
MaxFiles == 2

UpperLetters == <<"A","B","C","D","E","F","G","H","I","J","K","L","M","N","O","P","Q","R","S","T","U","V","W","X","Y","Z">>
LowerLetters == <<"a","b","c","d","e","f","g","h","i","j","k","l","m","n","o","p","q","r","s","t","u","v","w","x","y","z">>

\* str::to_lowercase, on ASCII text
to_lowercase(s) ==
    [i \in 1..Len(s) |->
        IF \E k \in 1..Len(UpperLetters) : UpperLetters[k] = s[i]
        THEN LowerLetters[CHOOSE k \in 1..Len(UpperLetters) : UpperLetters[k] = s[i]]
        ELSE s[i]]

\* PboConfigBuilder::new of src/core.rs: the default mapping
bin_file_types ==
    { << <<"c","o","n","f","i","g",".","b","i","n">>, <<"c","o","n","f","i","g",".","c","p","p">> >>,
      << <<"m","o","d","e","l",".","b","i","n">>, <<"m","o","d","e","l",".","c","f","g">> >>,
      << <<"s","t","r","i","n","g","t","a","b","l","e",".","b","i","n">>, <<"s","t","r","i","n","g","t","a","b","l","e",".","x","m","l">> >>,
      << <<"t","e","x","h","e","a","d","e","r","s",".","b","i","n">>, <<"t","e","x","h","e","a","d","e","r","s",".","t","x","t">> >>,
      << <<"s","c","r","i","p","t",".","b","i","n">>, <<"s","c","r","i","p","t",".","c","p","p">> >>,
      << <<"d","e","f","a","u","l","t">>, <<".","t","x","t">> >> }

\* PboConfigBuilder::new of src/core.rs: the default indicators
bad_pbo_indicators ==
    << <<"D","e","P","b","o",":","P","b","o"," ","u","n","k","n","o","w","n"," ","h","e","a","d","e","r"," ","t","y","p","e">>, <<"B","a","d"," ","S","h","a"," ","d","e","t","e","c","t","e","d">>, <<"B","a","d"," ","S","h","a">>,
       <<"t","h","i","s"," ","w","a","r","n","i","n","g"," ","i","s"," ","s","e","t"," ","a","s"," ","a","n"," ","e","r","r","o","r">> >>

\* PboConfig::get_bin_extension of src/core.rs: an exact lookup
get_bin_extension(filename) ==
    IF \E e \in bin_file_types : e[1] = filename
    THEN Some((CHOOSE e \in bin_file_types : e[1] = filename)[2])
    ELSE None

\* PboCore::detect_bin_type
detect_bin_type(path) ==
    LET name == to_lowercase(FileName(path))
    IN  IF get_bin_extension(name).some THEN get_bin_extension(name)
        ELSE IF EndsWith(name, <<".","b","i","n">>)
        THEN Some(TrimEndMatches(name, <<".","b","i","n">>) \o get_bin_extension(<<"d","e","f","a","u","l","t">>).val)
        ELSE None

\* Path::with_file_name
with_file_name(path, name) == SubSeq(path, 1, Len(path) - Len(FileName(path))) \o name

\* PboCore::process_extracted_bins: where each file of the directory is
\* after the pass
process_extracted_bins(files) ==
    { IF Extension(f) = Some(<<"b","i","n">>) /\ detect_bin_type(f).some
      THEN with_file_name(f, detect_bin_type(f).val)
      ELSE f : f \in files }

\* PboCore::validate_extraction
validate_extraction(files) ==
    IF files = {} THEN Some(Err("Extraction", "NoFiles", <<>>)) ELSE None

\* the files an archive may hold, as the tool writes them
PayloadNames ==
    { <<"c","o","n","f","i","g",".","b","i","n">>, <<"C","o","n","f","i","g",".","b","i","n">>, <<"d","a","t","a","/","m","o","d","e","l",".","b","i","n">>, <<"F","o","o",".","b","i","n">>, <<"a",".","b","i","n",".","b","i","n">>,
      <<"x",".","B","I","N">>, <<"a",".","t","x","t">>, <<"$","P","B","O","P","R","E","F","I","X","$",".","t","x","t">> }

Payloads == { p \in SUBSET PayloadNames : Cardinality(p) <= MaxFiles }

\* what is in the destination before the call
EarlierFiles == { {}, { <<"o","l","d",".","b","i","n">> }, { <<"c","o","n","f","i","g",".","b","i","n">> } }

BinFilters == { None, Some(<<"c","o","n","f","i","g",".","b","i","n">>) }

BinStderrs == { <<>>, <<"B","a","d"," ","S","h","a"," ","d","e","t","e","c","t","e","d">> }

BinInit ==
    /\ dest \in EarlierFiles
    /\ extracted = {}
    /\ extraction = [engine |-> "", returned |-> FALSE, ok |-> FALSE, return_code |-> 0]
    /\ result = NoResult
    /\ derived = NotDerived
    /\ phase = "off"
    /\ EngineOff
    /\ CommandOff
    /\ TempOff
    /\ BuilderOff
    /\ DecodeOff
    /\ LockOff

\* PboCore::prepare_output_dir of src/core.rs: what is left of the
\* destination
prepare_output_dir(files, file_filter) ==
    IF file_filter.some THEN files \ {file_filter.val} ELSE files

\* PboCore::extract_files of src/core.rs, from the call to the return
CoreExtractFiles ==
    /\ ~extraction.returned
    /\ \E pbo \in PboFiles, file_filter \in BinFilters, payload \in Payloads,
          code \in {0, 1}, stderr \in BinStderrs :
          LET written == prepare_output_dir(dest, file_filter) \cup payload
          IN  IF validate_pbo_exists(pbo).some
              THEN /\ extraction' = [engine |-> "PboCore", returned |-> TRUE, ok |-> FALSE,
                                     return_code |-> 0]
                   /\ UNCHANGED <<dest, extracted>>
              ELSE /\ extracted' = written
                   /\ IF code = 0
                      THEN /\ dest' = IF validate_extraction(written).some THEN written
                                      ELSE process_extracted_bins(written)
                           /\ extraction' = [engine |-> "PboCore", returned |-> TRUE,
                                             ok |-> ~validate_extraction(written).some,
                                             return_code |-> code]
                      ELSE /\ dest' = written
                           /\ extraction' = [engine |-> "PboCore", returned |-> TRUE,
                                             ok |-> ~is_bad_pbo([bad_pbo_indicators |-> bad_pbo_indicators], stderr),
                                             return_code |-> code]
    /\ UNCHANGED <<classifierVars, engineVars, commandVars, tempVars, builderVars, decodeVars, lockVars>>

\* PboApi::extract_files of src/core/api.rs, from the call to the return:
\* the destination holds what the tool wrote
ApiExtractFiles ==
    /\ ~extraction.returned
    /\ \E pbo \in PboFiles, file_filter \in BinFilters, payload \in Payloads,
          code \in {0, 1}, stderr \in BinStderrs, in_time \in BOOLEAN :
          LET req == Request("PboApi", "extract_files",
                             Options(TRUE, TRUE, FALSE, FALSE, file_filter), pbo,
                             [path |-> <<"/","t","/","o","u","t">>, state |-> "exists"])
              res == Finish(req, Output(Some(code), <<>>, stderr))
          IN  IF PboApi_precheck(req).some \/ Prepare(req).err.some
              THEN /\ extraction' = [engine |-> "PboApi", returned |-> TRUE, ok |-> FALSE,
                                     return_code |-> 0]
                   /\ UNCHANGED <<dest, extracted>>
              ELSE /\ extracted' = dest \cup payload
                   /\ dest' = dest \cup payload
                   /\ extraction' = [engine |-> "PboApi", returned |-> TRUE,
                                     ok |-> in_time /\ IsOk(res),
                                     return_code |-> code]
    /\ UNCHANGED <<classifierVars, engineVars, commandVars, tempVars, builderVars, decodeVars, lockVars>>

BinNext == CoreExtractFiles \/ ApiExtractFiles

BinSpec == BinInit /\ [][BinNext]_vars

-----------------------------------------------------------------------------
(* The builders of PboConfig and PboApi (src/core/config.rs, src/core/api.rs). *)

\* the builder methods called on one pair of builders
MaxBuilderCalls == 3

\* HashMap::insert
MapInsert(map, k, v) == [x \in DOMAIN map \cup {k} |-> IF x = k THEN v ELSE map[x]]

\* PboConfigBuilder::add_bin_mapping
add_bin_mapping(builder, bin_file, target_ext) ==
    LET key == IF ~builder.case_sensitive THEN to_lowercase(bin_file) ELSE bin_file
    IN  [builder EXCEPT !.bin_file_types = MapInsert(@, key, target_ext)]

\* PboConfigBuilder::case_sensitive
case_sensitive(builder, sensitive) == [builder EXCEPT !.case_sensitive = sensitive]

\* PboConfigBuilder::build: the PboConfig has the builder's fields
PboConfigBuilder_build(builder) == builder

\* PboConfig::get_bin_extension
PboConfig_get_bin_extension(cfg, filename) ==
    LET lookup_name == IF cfg.case_sensitive THEN filename ELSE to_lowercase(filename)
    IN  IF lookup_name \in DOMAIN cfg.bin_file_types
        THEN Some(cfg.bin_file_types[lookup_name])
        ELSE None

\* the names and mapped names a caller adds, and the seconds it asks for
MappingNames == { <<"T","e","s","t",".","b","i","n">>, <<"t","e","s","t",".","b","i","n">>, <<"T","E","S","T",".","B","I","N">> }
MappingTargets == { <<"t","e","s","t",".","t","x","t">>, <<"o","t","h","e","r",".","t","x","t">> }
TimeoutSeconds == {0, 1, 5}

BuilderCall(op, key, val, flag, seconds) ==
    [op |-> op, key |-> key, val |-> val, flag |-> flag, seconds |-> seconds]

NothingBuilt == [config |-> None, timeout |-> None]

\* PboConfig::builder() and PboApi::builder()
BuilderInit ==
    /\ configBuilder = PboConfigBuilder_new
    /\ apiBuilder = [config |-> None, timeout |-> None]
    /\ builderCalls = <<>>
    /\ built = NothingBuilt
    /\ result = NoResult
    /\ derived = NotDerived
    /\ phase = "off"
    /\ EngineOff
    /\ CommandOff
    /\ TempOff
    /\ BinOff
    /\ DecodeOff
    /\ LockOff

AddBinMapping ==
    /\ ~built.config.some
    /\ Len(builderCalls) < MaxBuilderCalls
    /\ \E k \in MappingNames, v \in MappingTargets :
          /\ configBuilder' = add_bin_mapping(configBuilder, k, v)
          /\ builderCalls' = Append(builderCalls, BuilderCall("add_bin_mapping", k, v, FALSE, 0))
    /\ UNCHANGED <<apiBuilder, built>>
    /\ UNCHANGED <<classifierVars, engineVars, commandVars, tempVars, binVars, decodeVars, lockVars>>

CaseSensitive ==
    /\ ~built.config.some
    /\ Len(builderCalls) < MaxBuilderCalls
    /\ \E b \in BOOLEAN :
          /\ configBuilder' = case_sensitive(configBuilder, b)
          /\ builderCalls' = Append(builderCalls, BuilderCall("case_sensitive", <<>>, <<>>, b, 0))
    /\ UNCHANGED <<apiBuilder, built>>
    /\ UNCHANGED <<classifierVars, engineVars, commandVars, tempVars, binVars, decodeVars, lockVars>>

\* PboConfigBuilder::build, and PboApiBuilder::with_config of the result
BuildConfig ==
    /\ ~built.config.some
    /\ built' = [built EXCEPT !.config = Some(PboConfigBuilder_build(configBuilder))]
    /\ apiBuilder' = [apiBuilder EXCEPT !.config = Some(PboConfigBuilder_build(configBuilder))]
    /\ UNCHANGED <<configBuilder, builderCalls>>
    /\ UNCHANGED <<classifierVars, engineVars, commandVars, tempVars, binVars, decodeVars, lockVars>>

\* PboApiBuilder::with_timeout
WithTimeout ==
    /\ ~built.timeout.some
    /\ Len(builderCalls) < MaxBuilderCalls
    /\ \E s \in TimeoutSeconds :
          /\ apiBuilder' = [apiBuilder EXCEPT !.timeout = PboApiBuilder_with_timeout(s)]
          /\ builderCalls' = Append(builderCalls, BuilderCall("with_timeout", <<>>, <<>>, FALSE, s))
    /\ UNCHANGED <<configBuilder, built>>
    /\ UNCHANGED <<classifierVars, engineVars, commandVars, tempVars, binVars, decodeVars, lockVars>>

\* PboApiBuilder::build
BuildApi ==
    /\ ~built.timeout.some
    /\ built' = [built EXCEPT !.timeout = Some(PboApiBuilder_build_timeout(apiBuilder.timeout))]
    /\ UNCHANGED <<configBuilder, apiBuilder, builderCalls>>
    /\ UNCHANGED <<classifierVars, engineVars, commandVars, tempVars, binVars, decodeVars, lockVars>>

BuilderNext == AddBinMapping \/ CaseSensitive \/ BuildConfig \/ WithTimeout \/ BuildApi

BuilderSpec == BuilderInit /\ [][BuilderNext]_vars

-----------------------------------------------------------------------------
(* Specifications of the result classifier over bounded sets of tool output *)

\* a text is a concatenation of at most this many fragments
MaxVerdictFrags == 2
MaxPrefixFrags == 4
MaxListFrags == 3

ReturnCodes == {0, 1, -1, 255}

VerdictFragments ==
    { error_indicators[i] : i \in 1..Len(error_indicators) }
    \cup { known_warnings[i] : i \in 1..Len(known_warnings) }
    \cup { <<"o","k">>, <<"E","r","r","o">>, <<"\n">> }

PrefixFragments ==
    { <<"p","r","e","f","i","x","=">>, <<"p","r","e","f","i","x","=","f","i","r","s","t",";">>, <<"p","r","e","f","i","x","=","s","e","c","o","n","d",";">>, <<"a">>,
      <<";">>, <<" ">>, <<"=">>, <<"\n">> }

ListFragments ==
    { <<"c","o","n","f","i","g",".","b","i","n">>, <<"d","a","t","a","\\","t","e","s","t",".","p","a","a">>, <<"a",".","t","x","t",":","2","0","2","0",":"," ","1","2"," ","b","y","t","e","s">>,
      <<"E","x","t","r","a","c","t","i","n","g"," ">>, <<".",".",".">>, <<"p","r","e","f","i","x","=","x",";">>, <<"=","=","=">>, <<"v","e","r","s","i","o","n","=">>,
      <<"A","c","t","i","v","e"," ","c","o","d","e"," ","p","a","g","e",":"," ","4","3","7">>, <<":">>, <<" ">>, <<"\n">> }

\* both streams together are built from at most MaxVerdictFrags fragments
VerdictInit ==
    /\ \E fs \in SeqsUpTo(VerdictFragments, MaxVerdictFrags) :
       \E k \in 0..Len(fs) :
       \E rc \in ReturnCodes :
           result = [return_code |-> rc,
                     stdout |-> Concat(SubSeq(fs, 1, k)),
                     stderr |-> Concat(SubSeq(fs, k + 1, Len(fs)))]
    /\ derived = NotDerived
    /\ phase = "input"
    /\ EngineOff
    /\ CommandOff
    /\ TempOff
    /\ BinOff
    /\ BuilderOff
    /\ DecodeOff
    /\ LockOff

PrefixInit ==
    /\ \E fs \in SeqsUpTo(PrefixFragments, MaxPrefixFrags) :
           result = [return_code |-> 0, stdout |-> Concat(fs), stderr |-> <<>>]
    /\ derived = NotDerived
    /\ phase = "input"
    /\ EngineOff
    /\ CommandOff
    /\ TempOff
    /\ BinOff
    /\ BuilderOff
    /\ DecodeOff
    /\ LockOff

FileListInit ==
    /\ \E fs \in SeqsUpTo(ListFragments, MaxListFrags) :
           result = [return_code |-> 0, stdout |-> Concat(fs), stderr |-> <<>>]
    /\ derived = NotDerived
    /\ phase = "input"
    /\ EngineOff
    /\ CommandOff
    /\ TempOff
    /\ BinOff
    /\ BuilderOff
    /\ DecodeOff
    /\ LockOff

ClassifierNext == Classify

VerdictSpec == VerdictInit /\ [][ClassifierNext]_vars
PrefixSpec == PrefixInit /\ [][ClassifierNext]_vars
FileListSpec == FileListInit /\ [][ClassifierNext]_vars

-----------------------------------------------------------------------------
(* Properties of the result classifier.                                     *)

\* p occurs in s, searched from the front
RECURSIVE OccursIn(_, _)
OccursIn(p, s) ==
    IF Len(s) < Len(p) THEN FALSE
    ELSE IF SubSeq(s, 1, Len(p)) = p THEN TRUE
    ELSE OccursIn(p, Tail(s))

BadIndicatorSet == { error_indicators[i] : i \in 1..Len(error_indicators) }
KnownWarningSet == { known_warnings[i] : i \in 1..Len(known_warnings) }

BadIndicatorIn(s) == \E p \in BadIndicatorSet : OccursIn(p, s)
KnownWarningIn(s) == \E p \in KnownWarningSet : OccursIn(p, s)

\* C3: is_success is true exactly when the exit code is 0 and no bad
\* indicator occurs in stdout or in stderr; a non-zero exit code always gives
\* false, and a known warning in either stream leaves the verdict as it is.
C3_IsSuccessIffCleanExit ==
    phase = "derived" =>
        /\ derived.is_success <=>
              /\ result.return_code = 0
              /\ ~BadIndicatorIn(result.stdout)
              /\ ~BadIndicatorIn(result.stderr)
        /\ result.return_code # 0 => ~derived.is_success
        /\ ( /\ result.return_code = 0
             /\ ~BadIndicatorIn(result.stdout)
             /\ ~BadIndicatorIn(result.stderr)
             /\ (KnownWarningIn(result.stdout) \/ KnownWarningIn(result.stderr)) )
           => derived.is_success

\* a clean exit whose stdout carries a known warning has been classified a
\* success
C3_Witness ==
    /\ phase = "derived"
    /\ result.return_code = 0
    /\ KnownWarningIn(result.stdout)
    /\ derived.is_success

RcText ==
    [rc \in ReturnCodes |->
        CASE rc = 0 -> <<"0">>
          [] rc = 1 -> <<"1">>
          [] rc = -1 -> <<"-", "1">>
          [] rc = 255 -> <<"2", "5", "5">>
          [] OTHER -> I32ToString(rc)]

\* C9: get_error_message is Some exactly when is_success is false; the
\* message starts with stderr verbatim when stderr is non-empty, contains the
\* exit code when it is non-zero, is the generic fallback when stderr is empty
\* and the exit code is zero, and is never empty.
C9_ErrorMessageShape ==
    phase = "derived" =>
        /\ derived.error_message.some <=> ~derived.is_success
        /\ derived.error_message.some =>
              LET msg == derived.error_message.val IN
              /\ msg # <<>>
              /\ result.stderr # <<>> => StartsWith(msg, result.stderr)
              /\ result.return_code # 0 =>
                    OccursIn(RcText[result.return_code], msg)
              /\ (result.stderr = <<>> /\ result.return_code = 0) =>
                    msg = <<"U","n","k","n","o","w","n"," ","e","r","r","o","r"," ","o","c","c","u","r","r","e","d">>

\* a failed result with empty stderr and a non-zero exit code has a message
C9_Witness ==
    /\ phase = "derived"
    /\ result.stderr = <<>>
    /\ result.return_code = 255
    /\ derived.error_message.some

PrefixEntries ==
    { [text |-> <<"p","r","e","f","i","x","=","f","i","r","s","t",";">>, value |-> <<"f","i","r","s","t">>],
      [text |-> <<"p","r","e","f","i","x","=","s","e","c","o","n","d",";">>, value |-> <<"s","e","c","o","n","d">>] }

\* C6: when stdout carries two prefix= entries, on separate lines or one
\* after the other on the same line, the prefix is the value of the first.
C6_FirstPrefixEntryWins ==
    phase = "derived" =>
        \A e1 \in PrefixEntries, e2 \in PrefixEntries, sep \in {<<>>, <<"\n">>} :
            result.stdout = e1.text \o sep \o e2.text
                => derived.prefix = Some(e1.value)

\* the text a line carries after its leading "prefix="
AfterPrefix(line) == SubSeq(line, Len(<<"p","r","e","f","i","x","=">>) + 1, Len(line))

\* white space removed from both ends and no semicolon left at the end
RECURSIVE StripValueEnd(_)
StripValueEnd(s) ==
    IF s # <<>> /\ (IsWhitespace(s[Len(s)]) \/ s[Len(s)] = ";")
    THEN StripValueEnd(SubSeq(s, 1, Len(s) - 1))
    ELSE s

StatedPrefixValue(line) == StripValueEnd(TrimStart(AfterPrefix(line)))

FirstPrefixLine(text) == FirstOf(SelectSeq(Lines(text), IsPrefixLine))

\* C7: get_prefix is None when no line starts with "prefix=" or the value is
\* empty after trimming; otherwise it is the text after "prefix=" on the
\* first such line without surrounding white space and trailing semicolon:
\* non-empty, no white space at either end, not ending in ";".
C7_PrefixIsTrimmedValue ==
    phase = "derived" =>
        LET line == FirstPrefixLine(result.stdout) IN
        /\ ~line.some => derived.prefix = None
        /\ line.some =>
              derived.prefix =
                  IF StatedPrefixValue(line.val) = <<>>
                  THEN None
                  ELSE Some(StatedPrefixValue(line.val))
        /\ derived.prefix.some =>
              LET v == derived.prefix.val IN
              /\ v # <<>>
              /\ ~IsWhitespace(v[1])
              /\ ~IsWhitespace(v[Len(v)])
              /\ v[Len(v)] # ";"

MetadataPrefixes == { skip_patterns[i] : i \in 1..Len(skip_patterns) }

IsListedLine(line) ==
    /\ Trim(line) # <<>>
    /\ ~\E p \in MetadataPrefixes : StartsWith(Trim(line), p)

\* C8: get_file_list has exactly one entry, in order, for every stdout line
\* that is non-empty and does not begin with a metadata prefix.
C8_OneEntryPerListedLine ==
    phase = "derived" =>
        LET ls == Lines(result.stdout) IN
        Len(derived.file_list) = Cardinality({i \in 1..Len(ls) : IsListedLine(ls[i])})

-----------------------------------------------------------------------------
(* Properties of the engine.                                                *)

\* the calls that went through PboApi::with_timeout
TimedCalls == { c \in CallIds : "recv" \in { events[c][i] : i \in 1..Len(events[c]) } }

\* the worker's events that came before recv_timeout returned
BeforeRecv(c) ==
    LET at == CHOOSE i \in 1..Len(events[c]) : events[c][i] = "recv"
    IN  { events[c][i] : i \in 1..(at - 1) }

\* the deadline passed with nothing delivered and the worker still running
DeadlineFirst(c) == c \in TimedCalls /\ BeforeRecv(c) \cap {"sent", "died"} = {}

\* C1: a call whose worker has delivered nothing when the timeout elapses
\* returns Err(Timeout(n)) with n the configured seconds, and returns nothing
\* else, whether or not the worker sends afterwards.
C1_TimeoutIsTheOnlyOutcome ==
    \A c \in CallIds :
        DeadlineFirst(c) =>
            /\ outcome[c] \in { <<>>, <<ErrTimeout(timeout)>> }
            /\ callerPc[c] = "done" => outcome[c] = <<ErrTimeout(timeout)>>
            /\ callerPc[c] = "done" => chan[c] = <<>> /\ ~rxAlive[c]

\* a call returned Timeout of the one second that with_timeout(0) configures
\* and its worker, finished with a success, sent while the caller was on its
\* way out
C1_Witness ==
    \E c \in CallIds :
        /\ callerPc[c] = "done"
        /\ events[c] = <<"recv", "sent">>
        /\ IsOk(opResult[c])
        /\ timeout = 1
        /\ outcome[c] = <<ErrTimeout(1)>>

CallerPending(c) == callerPc[c] \in {"waiting", "timed_out", "cancel_sent"}

\* C2: one with_timeout call produces exactly one outcome: none while the
\* caller is still in the call, where the caller can always take its next
\* step, and one once it returned: the worker's result when that was sent
\* before the deadline, Extraction(Canceled) when the worker died unsent,
\* Timeout when the deadline came first.
C2_ExactlyOneOutcome ==
    \A c \in CallIds :
        /\ Len(outcome[c]) <= 1
        /\ CallerPending(c) =>
              /\ outcome[c] = <<>>
              /\ ENABLED (CallerReceives(c) \/ CallerSendsCancel(c) \/ CallerReturnsTimeout(c))
        /\ callerPc[c] = "done" => Len(outcome[c]) = 1
        /\ (callerPc[c] = "done" /\ c \in TimedCalls) =>
              IF "sent" \in BeforeRecv(c) THEN outcome[c] = <<opResult[c]>>
              ELSE IF "died" \in BeforeRecv(c) THEN outcome[c] = <<canceled_error>>
              ELSE outcome[c][1].tag = "Timeout"

\* a call whose worker panicked inside the tool returned Extraction(Canceled)
C2_Witness ==
    \E c \in CallIds :
        /\ callerPc[c] = "done"
        /\ events[c] = <<"died", "recv">>
        /\ spawns[c] = 1
        /\ outcome[c] = <<canceled_error>>

\* the subprocess of call c completed
ToolCompleted(c) == spawns[c] > 0 /\ tool[c].kind = "output"

\* the result of call c's operation was returned to the caller
OperationReturned(c) ==
    /\ callerPc[c] = "done"
    /\ Len(outcome[c]) = 1
    /\ outcome[c][1].tag # "Timeout"
    /\ outcome[c][1] # canceled_error

\* C4: on a PboApi built with a configuration, an indicator of that
\* configuration, a default or one added with add_bad_indicator, in the
\* tool's stdout or stderr makes the call fail, whatever the exit code.
C4_ConfiguredIndicatorFails ==
    \A c \in CallIds :
        (/\ request[c].engine = "PboApi"
         /\ OperationReturned(c)
         /\ ToolCompleted(c)
         /\ is_bad_pbo(config, tool[c].stdout) \/ is_bad_pbo(config, tool[c].stderr))
        => ~IsOk(outcome[c][1])

\* C5: a subprocess that completed with a non-zero exit code, or with a bad
\* indicator in stdout or stderr, makes a PboApi operation return an
\* Extraction error that holds the tool's stdout and stderr.
C5_ToolFailureIsExtractionError ==
    \A c \in CallIds :
        (/\ request[c].engine = "PboApi"
         /\ OperationReturned(c)
         /\ ToolCompleted(c)
         /\ \/ tool[c].code # Some(0)
            \/ BadIndicatorIn(tool[c].stdout)
            \/ BadIndicatorIn(tool[c].stderr))
        => /\ outcome[c][1].tag = "Extraction"
           /\ Contains(outcome[c][1].text, tool[c].stdout)
           /\ Contains(outcome[c][1].text, tool[c].stderr)

\* C10: a request whose file filter holds one of < > | " ' never spawns the
\* subprocess and ends in an error.
C10_IllegalFilterNeverSpawns ==
    \A c \in CallIds :
        (/\ request[c].options.file_filter.some
         /\ ContainsAnyChar(request[c].options.file_filter.val, IllegalChars))
        => /\ spawns[c] = 0
           /\ callerPc[c] = "done" => ~IsOk(outcome[c][1])

-----------------------------------------------------------------------------
(* Properties of the entry points: what is checked before anything starts.  *)

IsExtraction(req) == req.method \in {"extract_files", "extract_with_options"}

\* the engines: the implementations of PboApiOps
IsEngine(req) == req.engine \in {"PboApi", "PboCore"}

BlankFilter(req) ==
    req.options.file_filter.some /\ Trim(req.options.file_filter.val) = <<>>

\* C11: an extraction request on PboApi or PboCore whose file filter is empty
\* or white space only starts no worker thread and no subprocess and returns
\* ValidationFailed("File filter cannot be empty").
C11_BlankFilterRejected ==
    \A c \in CallIds :
        (/\ IsEngine(request[c])
         /\ IsExtraction(request[c])
         /\ BlankFilter(request[c])
         /\ request[c].pbo.exists
         /\ Extension(request[c].pbo.path) = Some(<<"p","b","o">>)
         /\ request[c].out.state = "exists")
        => /\ workerPc[c] = "none"
           /\ spawns[c] = 0
           /\ callerPc[c] = "done" =>
                 outcome[c] = <<Err("ValidationFailed", "", <<"F","i","l","e"," ","f","i","l","t","e","r"," ","c","a","n","n","o","t"," ","b","e"," ","e","m","p","t","y">>)>>

\* C12: a list or extract request on PboApi or PboCore whose source path does
\* not exist returns InvalidPath of that path, whatever the timeout, and
\* starts no worker thread and no subprocess.
C12_MissingSourceIsInvalidPath ==
    \A c \in CallIds :
        (IsEngine(request[c]) /\ ~request[c].pbo.exists) =>
            /\ callerPc[c] = "done"
            /\ outcome[c] = <<Err("InvalidPath", "", request[c].pbo.path)>>
            /\ workerPc[c] = "none"
            /\ reaperPc[c] = "none"
            /\ spawns[c] = 0
            /\ events[c] = <<>>

\* an extraction on a PboApi with a timeout of one second, on a source that
\* does not exist, returned InvalidPath
C12_Witness ==
    \E c \in CallIds :
        /\ request[c].engine = "PboApi"
        /\ IsExtraction(request[c])
        /\ ~request[c].pbo.exists
        /\ timeout = 1
        /\ callerPc[c] = "done"
        /\ outcome[c] = <<Err("InvalidPath", "", <<"a",".","p","b","o">>)>>

\* C13: an extract request that fails validation spawns no subprocess and
\* leaves the file system as it was: the destination directory is not
\* created.
C13_FailedValidationCreatesNothing ==
    \A c \in CallIds :
        (/\ IsEngine(request[c])
         /\ IsExtraction(request[c])
         /\ OperationReturned(c)
         /\ spawns[c] = 0)
        => ~dirCreated[c]

\* the option tokens of a command line other than the file filter
FlagTokens(line) == SelectSeq(line, LAMBDA a : IsOptionToken(a) /\ ~StartsWith(a, <<"-","F","=">>))

\* C15: W and P are on the command line only when the request sets
\* warnings_as_errors and no_pause.
C15_FlagsReflectOptions ==
    \A c \in CallIds :
        (/\ IsEngine(request[c])
         /\ request[c].method = "extract_with_options"
         /\ spawns[c] > 0)
        => \A i \in 1..Len(FlagTokens(cmdline[c])) :
              /\ ContainsChar(FlagTokens(cmdline[c])[i], "W")
                    => request[c].options.warnings_as_errors
              /\ ContainsChar(FlagTokens(cmdline[c])[i], "P")
                    => request[c].options.no_pause

-----------------------------------------------------------------------------
(* Properties of the command line.                                          *)

\* how many tokens of the sequence satisfy being an option token
OptionCount(seq) == Len(SelectSeq(seq, IsOptionToken))

Occurrences(seq, t) == Cardinality({ i \in 1..Len(seq) : seq[i] = t })

\* C14: whatever the order of the argument list, the command line is the
\* core-flag token, then every option token of the list, then the source
\* path, then at most one destination path; no option token follows the
\* source path.
C14_CanonicalCommandLine ==
    (cmdOut.built /\ ~cmdOut.err.some) =>
        LET line == cmdOut.cmdline
            n == OptionCount(cmdIn.args)
        IN  /\ Len(line) \in {n + 2, n + 3}
            /\ line[1] = <<"-","P","W">>
            /\ \A i \in 2..(n + 1) : IsOptionToken(line[i])
            /\ \A t \in ArgTokens :
                  IsOptionToken(t) =>
                      Occurrences(SubSeq(line, 2, n + 1), t) = Occurrences(cmdIn.args, t)
            /\ line[n + 2] = RemoveAll(cmdIn.pbo.path, VerbatimPrefix)
            /\ Len(line) = n + 3 =>
                  /\ ~IsOptionToken(line[n + 3])
                  /\ Occurrences(cmdIn.args, line[n + 3]) > 0
            /\ Len(line) = n + 2 => n = Len(cmdIn.args)

\* a list that names the destination before its options was turned into a
\* command line
C14_Witness ==
    /\ cmdOut.built
    /\ ~cmdOut.err.some
    /\ Len(cmdIn.args) = 3
    /\ ~IsOptionToken(cmdIn.args[1])
    /\ IsOptionToken(cmdIn.args[2])
    /\ IsOptionToken(cmdIn.args[3])
    /\ Len(cmdOut.cmdline) = 5

-----------------------------------------------------------------------------
(* Properties of the scratch directories.                                   *)

CreatedDirs == { d \in DirIds : creator[d] # 0 }

\* C16: every path in a manager's registry exists on disk, every created
\* path that has left its manager's registry does not, and a released
\* TempDir is gone from both.
C16_RegistryMatchesDisk ==
    /\ \A m \in managers : active_dirs[m] \subseteq disk
    /\ \A d \in CreatedDirs : d \notin active_dirs[creator[d]] => d \notin disk
    /\ \A d \in CreatedDirs \ handles : d \notin disk /\ d \notin active_dirs[creator[d]]

\* C17: a handle's registry holds only directories created through that
\* handle, and cleanup by one handle removes only that handle's directories.
C17_RegistriesAreSeparate ==
    /\ \A m \in managers : \A d \in active_dirs[m] : creator[d] = m
    /\ \A r \in removals : creator[r[2]] = r[1]

\* C24: the directory of a TempDir that has not been dropped exists: no
\* create_temp_dir or cleanup_old_dirs of any handle has removed it.
C24_LiveTempDirIsKept ==
    \A d \in handles : d \in disk

\* C25: when cleanup_old_dirs has run on a manager, whether on its own or
\* at the start of create_temp_dir, the registry of that manager holds no
\* path created more than max_age ago, on disk or not.
C25_CleanupForgetsAgedPaths ==
    [][\A m \in ManagerIds :
          (CleanupOldDirs(m) \/ CreateTempDir(m)) => (active_dirs'[m] \cap expired = {})]_vars

\* C26: no thread has made a file-system call, a metadata query or the
\* creation or removal of a directory, while it held the active_dirs mutex.
C26_NoIoUnderLock ==
    lockedIo = {}

-----------------------------------------------------------------------------
(* Properties of concurrent calls.                                          *)

\* C18: of the list calls running concurrently on one archive, each caller
\* waits on its own channel, which carries nothing but its own worker's
\* result, and can always take its next step; a call that returns before its
\* deadline returns its own worker's Ok, a call whose deadline came first
\* returns Timeout, and all the file lists returned are equal.
C18_ParallelListCallsAgree ==
    /\ \A c \in CallIds :
          /\ Len(chan[c]) <= 1
          /\ \A i \in 1..Len(chan[c]) : chan[c][i] = opResult[c]
          /\ CallerPending(c) =>
                ENABLED (CallerReceives(c) \/ CallerSendsCancel(c) \/ CallerReturnsTimeout(c))
          /\ callerPc[c] = "done" =>
                IF DeadlineFirst(c)
                THEN outcome[c] = <<ErrTimeout(timeout)>>
                ELSE /\ outcome[c] = <<opResult[c]>>
                     /\ IsOk(outcome[c][1])
                     /\ get_file_list(outcome[c][1].result) = << <<"c","o","n","f","i","g",".","b","i","n">>, <<"d","a","t","a","/","a",".","p","a","a">> >>
    /\ \A c, d \in CallIds :
          (/\ callerPc[c] = "done" /\ IsOk(outcome[c][1])
           /\ callerPc[d] = "done" /\ IsOk(outcome[d][1])) =>
              get_file_list(outcome[c][1].result) = get_file_list(outcome[d][1].result)

\* two calls that overlapped in time both returned Ok with the same two files
C18_Witness ==
    \E c, d \in CallIds :
        /\ c # d
        /\ callerPc[c] = "done" /\ IsOk(outcome[c][1])
        /\ callerPc[d] = "done" /\ IsOk(outcome[d][1])
        /\ events[d] = <<"overlapped", "sent", "recv">>
        /\ Len(get_file_list(outcome[c][1].result)) = 2
        /\ get_file_list(outcome[c][1].result) = get_file_list(outcome[d][1].result)

\* the call on slot c ran into its deadline
TimedOut(c) == reaperPc[c] # "none"

\* the operation of call c has returned
OperationOver(c) == workerPc[c] \in {"op_done", "sending", "exited"}

\* C27: every call that waits in with_timeout returns to its caller, whether
\* or not its operation ever ends; a call that timed out returns the timeout
\* error alone and nothing stays queued for any receiver; and once the
\* operation of a timed-out call is over, its worker thread ends and its
\* reaper thread ends after it.
C27_TimedOutCallsAreReaped ==
    \A c \in CallIds :
        /\ (callerPc[c] = "waiting") ~> (callerPc[c] = "done")
        /\ [](TimedOut(c) => /\ outcome[c] = <<timeout_error(timeout)>>
                             /\ chan[c] = <<>>
                             /\ ~rxAlive[c])
        /\ (TimedOut(c) /\ OperationOver(c))
              ~> (workerPc[c] = "exited" /\ reaperPc[c] = "done")

\* a call timed out, its operation returned afterwards, and both threads ended
C27_Witness ==
    \E c \in CallIds :
        /\ outcome[c] = <<timeout_error(timeout)>>
        /\ tool[c] = ParallelOutput
        /\ workerPc[c] = "exited"
        /\ reaperPc[c] = "done"

-----------------------------------------------------------------------------
(* Properties of the extracted .bin files.                                  *)

MappedBasenames == { e[1] : e \in bin_file_types } \ { <<"d","e","f","a","u","l","t">> }

\* the name the default mapping gives a mapped basename
MappedName(name) == (CHOOSE e \in bin_file_types : e[1] = name)[2]

\* the same directory, another file name
InSameDirectory(f, name) == SubSeq(f, 1, Len(f) - Len(FileName(f))) \o name

\* C19: after extract_files returned Ok with the tool's exit code 0, no file
\* of the destination has a mapped basename, and every file extracted under
\* one is there under its mapped name.
C19_NoMappedBinRemains ==
    (extraction.returned /\ extraction.ok /\ extraction.return_code = 0) =>
        /\ \A f \in dest : FileName(f) \notin MappedBasenames
        /\ \A f \in extracted :
              FileName(f) \in MappedBasenames =>
                  InSameDirectory(f, MappedName(FileName(f))) \in dest

\* where the pass is to leave a file: a mapped basename under its mapped
\* name, any other X.bin as X.txt, anything else where it is
StatedPlace(f) ==
    LET name == FileName(f)
    IN  IF name \in MappedBasenames THEN InSameDirectory(f, MappedName(name))
        ELSE IF EndsWith(name, <<".","b","i","n">>) /\ Len(name) > 4
        THEN SubSeq(f, 1, Len(f) - 4) \o <<".","t","x","t">>
        ELSE f

\* C20: after the pass of PboCore::extract_files ran, the destination holds
\* every file that was there when the tool finished, at the place the
\* default mapping and the fallback rule give it, and nothing else.
C20_PassKeepsStems ==
    (/\ extraction.returned /\ extraction.engine = "PboCore"
     /\ extraction.ok /\ extraction.return_code = 0) =>
        dest = { StatedPlace(f) : f \in extracted }

-----------------------------------------------------------------------------
(* Further properties of the results and of the engine.                     *)

\* C28: a PboApi call that returned Ok returned a result that is_success
\* accepts: exit code 0 and no error indicator.
C28_OkResultsAreSuccesses ==
    \A c \in CallIds :
        (/\ request[c].engine = "PboApi"
         /\ callerPc[c] = "done"
         /\ Len(outcome[c]) = 1
         /\ IsOk(outcome[c][1])) =>
            is_success(outcome[c][1].result)

\* a PboApi extraction came back Ok although the tool wrote a warning to
\* stderr: exit code 0 and no error indicator in either stream
C28_Witness ==
    \E c \in CallIds :
        /\ request[c].engine = "PboApi"
        /\ request[c].method = "extract_with_options"
        /\ callerPc[c] = "done"
        /\ Len(outcome[c]) = 1
        /\ IsOk(outcome[c][1])
        /\ outcome[c][1].result.stderr # <<>>
        /\ outcome[c][1].result.return_code = 0

C30_PassLosesNoFile ==
    (/\ extraction.returned /\ extraction.engine = "PboCore"
     /\ extraction.ok /\ extraction.return_code = 0) =>
        Cardinality(dest) = Cardinality(extracted)

-----------------------------------------------------------------------------
(* Properties of the builders.                                              *)

CallsOf(op) == SelectSeq(builderCalls, LAMBDA c : c.op = op)

\* the last element of a sequence that has one
Last(seq) == seq[Len(seq)]

\* the add_bin_mapping calls under a name that matches `name`: exactly when
\* sensitive, in any letter case when not
MatchingAdds(name, sensitive) ==
    SelectSeq(builderCalls,
              LAMBDA c : /\ c.op = "add_bin_mapping"
                         /\ IF sensitive THEN c.key = name
                            ELSE to_lowercase(c.key) = to_lowercase(name))

\* C21: the built configuration answers a lookup with the mapped name that
\* the last add_bin_mapping under a matching name gave: matching in any
\* letter case when the configuration is not case sensitive, matching
\* exactly when it is, whatever the order of the builder calls was.
C21_LookupFollowsCaseFlag ==
    built.config.some =>
        \A name \in MappingNames :
            LET adds == MatchingAdds(name, built.config.val.case_sensitive)
            IN  PboConfig_get_bin_extension(built.config.val, name)
                    = IF adds # <<>> THEN Some(Last(adds).val) ELSE None

-----------------------------------------------------------------------------
(* Properties of the content decoder.                                       *)

HasBom(s) == Len(s) >= 3 /\ SubSeq(s, 1, 3) = <<239, 187, 191>>

\* the text Windows-1252 gives the bytes used here: every byte below 0x80
\* and from 0xA0 on is its own code point
Windows1252Text(s) == [i \in 1..Len(s) |-> s[i]]

\* C22: a buffer with no byte-order mark and no NUL byte that is not valid
\* UTF-8 decodes to its Windows-1252 text, with no replacement character.
C22_Windows1252Fallback ==
    (/\ decoded.done
     /\ ~HasBom(content)
     /\ \A i \in 1..Len(content) : content[i] # 0
     /\ ~from_utf8(content).some) =>
        /\ IsOk(decoded.value)
        /\ decoded.value.result = Windows1252Text(content)
        /\ \A i \in 1..Len(decoded.value.result) : decoded.value.result[i] # REPLACEMENT

====
